---------------------------- MODULE Spec2Model ----------------------------
(***************************************************************************)
(* Resilience and resource-governance core of the local RAG system:        *)
(*   utils/resilience.py        CircuitBreaker, AdvancedRetry,             *)
(*                              ServiceHealthChecker, FallbackManager,     *)
(*                              ResilienceManager, resilient_function      *)
(*   utils/memory_optimizer.py  LRUCache, MemoryMonitor, MemoryPool,       *)
(*                              MemoryOptimizer, memory_optimized          *)
(*   utils/helpers.py           retry_on_failure                           *)
(* Each component has its own specification (SpecCB, SpecCBFair,           *)
(* SpecRetry, SpecRF, SpecReg, SpecHC, SpecLRU, SpecTTL, SpecMon,          *)
(* SpecRestart, SpecPool, SpecOpt, SpecROF, SpecBO, SpecMO); the variables *)
(* of the components a specification does not exercise stay at their       *)
(* initial values.                                                         *)
(***************************************************************************)
EXTENDS Integers, Sequences, FiniteSets, TLC

(***************************************************************************)
(* Bounds of the model.                                                    *)
(***************************************************************************)
NumThreads == 2        \* concurrent callers of one breaker or one cache
MaxThreshold == 2      \* failure_threshold is drawn from 1..MaxThreshold
MaxTimeout == 2        \* timeout is drawn from 1..MaxTimeout
MaxTime == 3           \* the clock runs from 0 to MaxTime
MaxCalls == 4          \* inner calls started per behaviour
MaxAttempts == 2       \* max_attempts is drawn from 0..MaxAttempts (1.. when wrapped)
MaxInvocations == 2    \* invocations of decorated functions per behaviour
MaxWraps == 2          \* applications of resilient_function per behaviour
MaxFallbacks == 2      \* fallback strategies given to one resilient_function
NumKeys == 3           \* cache keys
NumValues == 1         \* cached values
MaxSize == 2           \* max_size is drawn from 1..MaxSize
MaxOps == 4            \* cache calls per behaviour
MaxTTL == 1            \* ttl is drawn from 1..MaxTTL where entries expire
MaxTTLOps == 3         \* cache calls per behaviour where entries expire
MaxFailures == 6       \* failed health checks in a row per service
MaxStarts == 1         \* start_monitoring calls that start a thread, per behaviour
MaxStops == 2          \* stop_monitoring calls per behaviour
MaxCallbacks == 2      \* callbacks added to one monitor
MaxInterval == 2       \* check_interval is JoinTimeout or MaxInterval clock ticks
NumTypes == 2          \* object types of the memory pool
MaxPoolSizeMb == 1     \* pool_size_mb is drawn from 0..MaxPoolSizeMb
NumNames == 2          \* cache names of the optimizer
MaxCaches == 2         \* create_cache calls per behaviour
MaxFree == 1           \* objects returned to the optimizer's pool between cleanups
MaxRetries == 2        \* max_retries of retry_on_failure is drawn from 0..MaxRetries
MaxBackoffAttempt == 7 \* the backoff strategies are called for attempts 0..MaxBackoffAttempt
MaxBaseDelay == 3      \* base_delay and increment are drawn from 1..MaxBaseDelay seconds

Threads == 1..NumThreads

\* self.last_failure_time = None
NoTime == -1

\* no thread holds the lock
NoThread == 0

VARIABLES
    now,                  \* time.time()
    cb,                   \* the CircuitBreaker object's fields
    cb_lock,              \* CircuitBreaker._lock: its holder, or NoThread
    cb_pc,                \* per caller: "idle", "waiting" (for the lock), "inner"
    cb_result,            \* per caller: how its last call ended
    cb_trial,             \* per caller: its last call entered as the HalfOpen trial
    inner_calls,          \* call counter of the guarded function
    consecutive_failures, \* filtered failures since the last other outcome
    failures_since_success \* filtered failures since the last inner call that returned

cbVars == <<cb, cb_lock, cb_pc, cb_result, cb_trial, inner_calls, consecutive_failures,
            failures_since_success>>

VARIABLES
    rm_config,            \* ResilienceManager.config["circuit_breaker"]
    circuit_breakers,     \* ResilienceManager.circuit_breakers: service -> breaker
    breakers,             \* the CircuitBreaker objects created so far
    fallback_strategies,  \* FallbackManager.fallback_strategies: service -> list
    service_status,       \* ServiceHealthChecker.service_status
    failure_counts,       \* ServiceHealthChecker.failure_counts
    last_check_time,      \* ServiceHealthChecker.last_check_time
    hc_result,            \* how the last health-checker call ended
    hc_run                \* per service: failed checks in a row up to now

rmVars == <<rm_config, circuit_breakers, breakers, fallback_strategies,
            service_status, failure_counts, last_check_time, hc_result, hc_run>>

VARIABLES
    wrapped,              \* the decorated callables, in order of decoration
    rf_pc,                \* where the caller of a decorated callable is
    rf_fn,                \* the decorated callable being invoked (index)
    attempt,              \* AdvancedRetry wrapper: loop variable
    last_exception,       \* AdvancedRetry wrapper: last_exception
    last_delay,           \* the delay of the time.sleep in progress, in ms
    fb_index,             \* _try_fallback_strategies: strategy being tried
    fb_tried,             \* this invocation: the strategies called, in order
    result,               \* what the invocation returned or raised
    raw_calls,            \* this invocation: calls of the undecorated function
    checks,               \* this invocation: breaker state checks
    sleeps,               \* this invocation: backoff sleeps
    on_retry_calls,       \* this invocation: on_retry callbacks
    on_failure_calls,     \* this invocation: on_failure callbacks
    invocations           \* invocations started so far

rfVars == <<wrapped, rf_pc, rf_fn, attempt, last_exception, last_delay, fb_index, fb_tried,
            result, raw_calls, checks, sleeps, on_retry_calls, on_failure_calls,
            invocations>>

VARIABLES
    lru_max_size,         \* LRUCache.max_size
    lru_ttl,              \* LRUCache.ttl (None and 0 both switch expiry off)
    lru_cache,            \* LRUCache._cache: the entries, oldest first
    lru_timestamps,       \* LRUCache._timestamps
    lru_hits,             \* LRUCache._hits
    lru_misses,           \* LRUCache._misses
    lru_lock,             \* LRUCache._lock: its holder, or NoThread
    lru_pc,               \* per caller: the call it is in and where
    lru_ret,              \* per caller: what its last get returned
    lru_ops,              \* calls started so far
    lru_used,             \* the keys put or hit so far, the latest use last
    lru_last              \* what the last put found and removed

lruVars == <<lru_max_size, lru_ttl, lru_cache, lru_timestamps, lru_hits, lru_misses,
             lru_lock, lru_pc, lru_ret, lru_ops, lru_used, lru_last>>

VARIABLES
    mon_threshold_mb,     \* MemoryMonitor.threshold_mb
    mon_check_interval,   \* MemoryMonitor.check_interval, in clock ticks
    mon_monitoring,       \* MemoryMonitor.monitoring
    mon_thread,           \* MemoryMonitor.monitor_thread: a thread started, or NoMonitor
    mon_callbacks,        \* MemoryMonitor.callbacks: how many have been added
    mon_threads,          \* the threads started so far, each in _monitor_loop
    mon_app,              \* the application thread: idle, or in stop_monitoring's join
    mon_deadline,         \* when the join under way times out
    mon_stop_result,      \* how the last stop_monitoring call returned
    mon_stops             \* stop_monitoring calls made so far

monVars == <<mon_threshold_mb, mon_check_interval, mon_monitoring, mon_thread,
             mon_callbacks, mon_threads, mon_app, mon_deadline, mon_stop_result,
             mon_stops>>

VARIABLES
    pool_size_mb,         \* MemoryPool.pool_size_mb
    free_objects,         \* MemoryPool.free_objects: type -> number of free objects
    pool_last,            \* what the last call on the pool did, and for which type
    opt_caches,           \* MemoryOptimizer.caches: name -> cache
    opt_sizes,            \* the caches create_cache has made: whether each holds an entry
    opt_callbacks,        \* MemoryOptimizer._optimization_callbacks: how many
    opt_pc,               \* where _default_memory_optimization is
    opt_called,           \* the custom callbacks it has called this time
    opt_failed,           \* those of them that raised an Exception
    opt_written           \* somebody else wrote since it last started

optVars == <<pool_size_mb, free_objects, pool_last, opt_caches, opt_sizes,
             opt_callbacks, opt_pc, opt_called, opt_failed, opt_written>>

VARIABLES
    rof_max_retries,      \* retry_on_failure's max_retries
    rof_pc,               \* where the wrapper is: idle, call, sleep
    rof_attempt,          \* the loop variable attempt
    rof_calls,            \* calls of the decorated function in this invocation
    rof_errors,           \* the classes of the errors those calls raised, in order
    rof_result,           \* how the last invocation of the wrapper ended
    rof_invocations       \* invocations of the wrapper so far

rofVars == <<rof_max_retries, rof_pc, rof_attempt, rof_calls, rof_errors, rof_result,
             rof_invocations>>

VARIABLES
    bo_base_delay,        \* the base_delay the strategies are called with
    bo_max_delay,         \* the max_delay exponential_backoff is called with
    bo_increment,         \* the increment linear_backoff is called with
    bo_attempt,           \* the attempt the strategies are called with next
    bo_exponential,       \* what exponential_backoff returned last
    bo_linear,            \* what linear_backoff returned last
    bo_previous           \* what exponential_backoff returned the time before

boVars == <<bo_base_delay, bo_max_delay, bo_increment, bo_attempt, bo_exponential,
            bo_linear, bo_previous>>

VARIABLES
    mo_max_size,          \* max_size of the cache of the decorated function
    mo_func,              \* what the decorated function returns, per argument
    mo_cache,             \* the _cache of the cache of the decorated function
    mo_last               \* the last call of the wrapper: its argument, whether
                          \* the cache held an entry for it, whether the
                          \* function was executed, and what was returned

moVars == <<mo_max_size, mo_func, mo_cache, mo_last>>

\* the components besides those of the resilient call path and LRUCache
extVars == <<monVars, optVars, rofVars, boVars, moVars>>

notMon == <<cbVars, rmVars, rfVars, lruVars, optVars, rofVars, boVars, moVars>>
notOpt == <<cbVars, rmVars, rfVars, lruVars, monVars, rofVars, boVars, moVars>>
notROF == <<cbVars, rmVars, rfVars, lruVars, monVars, optVars, boVars, moVars>>
notBO == <<cbVars, rmVars, rfVars, lruVars, monVars, optVars, rofVars, moVars>>
notMO == <<cbVars, rmVars, rfVars, lruVars, monVars, optVars, rofVars, boVars>>

vars == <<now, cbVars, rmVars, rfVars, lruVars, extVars>>

\* what the actions of one component leave alone
notCB == <<rmVars, rfVars, lruVars, extVars>>
notRF == <<cbVars, lruVars, extVars>>
notLRU == <<cbVars, rmVars, rfVars, extVars>>

(***************************************************************************)
(* CircuitBreaker (resilience.py 30-93)                                    *)
(***************************************************************************)
CircuitBreakerState == {"closed", "open", "half_open"}

\* CircuitBreaker.__init__
NewCircuitBreaker(threshold, tmo) ==
    [failure_threshold |-> threshold,
     timeout |-> tmo,
     failure_count |-> 0,
     last_failure_time |-> NoTime,
     state |-> "closed"]

\* _should_attempt_reset: (time.time() - self.last_failure_time) >= self.timeout
should_attempt_reset_no_origin(b, t) == t >= b.timeout

should_attempt_reset(b, t) == (t - b.last_failure_time) >= b.timeout

\* _on_success
on_success_keeps_count(b) == [b EXCEPT !.state = "closed"]

on_success(b) == [b EXCEPT !.failure_count = 0, !.state = "closed"]

\* _on_failure at time t
on_failure_opens_at_once(b, t) ==
    [b EXCEPT !.failure_count = @ + 1,
              !.last_failure_time = t,
              !.state = "open"]

on_failure_losing(b, t) ==
    [b EXCEPT !.last_failure_time = t,
              !.state = IF b.failure_count + 1 >= b.failure_threshold
                        THEN "open" ELSE @]

on_failure_capped(b, t) ==
    [b EXCEPT !.failure_count = IF @ < b.failure_threshold THEN @ + 1 ELSE @,
              !.last_failure_time = t,
              !.state = IF b.failure_count + 1 >= b.failure_threshold
                        THEN "open" ELSE @]

on_failure(b, t) ==
    [b EXCEPT !.failure_count = @ + 1,
              !.last_failure_time = t,
              !.state = IF b.failure_count + 1 >= b.failure_threshold
                        THEN "open" ELSE @]

\* The check made under the lock before the inner call (wrapper, lines 61-65):
\* the breaker after the check, and whether the call goes on to the inner
\* function ("pass"), is rejected ("reject": raise Exception) or the check
\* itself fails ("error": time.time() - None is a TypeError).
BreakerCheck_extending(b, t) ==
    IF b.state = "open"
    THEN IF b.last_failure_time = NoTime
         THEN [breaker |-> b, verdict |-> "error", trial |-> FALSE]
         ELSE IF should_attempt_reset(b, t)
              THEN [breaker |-> [b EXCEPT !.state = "half_open"],
                    verdict |-> "pass", trial |-> TRUE]
              ELSE [breaker |-> [b EXCEPT !.last_failure_time = t],
                    verdict |-> "reject", trial |-> FALSE]
    ELSE [breaker |-> b, verdict |-> "pass", trial |-> FALSE]

BreakerCheck(b, t) ==
    IF b.state = "open"
    THEN IF b.last_failure_time = NoTime
         THEN [breaker |-> b, verdict |-> "error", trial |-> FALSE]
         ELSE IF should_attempt_reset(b, t)
              THEN [breaker |-> [b EXCEPT !.state = "half_open"],
                    verdict |-> "pass", trial |-> TRUE]
              ELSE [breaker |-> b, verdict |-> "reject", trial |-> FALSE]
    ELSE [breaker |-> b, verdict |-> "pass", trial |-> FALSE]

\* the breaker's callers before any call
CBStart ==
    /\ cb_lock = NoThread
    /\ cb_pc = [t \in Threads |-> "idle"]
    /\ cb_result = [t \in Threads |-> "none"]
    /\ cb_trial = [t \in Threads |-> FALSE]
    /\ inner_calls = 0
    /\ consecutive_failures = 0
    /\ failures_since_success = 0

\* a breaker nobody calls
CBIdle == cb = NewCircuitBreaker(1, 1) /\ CBStart

\* time passes
Tick ==
    /\ now < MaxTime
    /\ now' = now + 1

\* A caller invokes the wrapper and reaches `with self._lock`.
CBCall(t) ==
    /\ cb_pc[t] = "idle"
    /\ inner_calls < MaxCalls
    /\ cb_pc' = [cb_pc EXCEPT ![t] = "waiting"]
    /\ cb_result' = [cb_result EXCEPT ![t] = "none"]
    /\ cb_trial' = [cb_trial EXCEPT ![t] = FALSE]
    /\ UNCHANGED <<now, cb, cb_lock, inner_calls, consecutive_failures,
                   failures_since_success, notCB>>

\* The caller gets the lock and makes the state check; it either starts the
\* inner call, still holding the lock, or raises and releases the lock.  A
\* wrapper called from inside the inner call waits for the lock likewise.
CBEnter(t) ==
    /\ cb_pc[t] \in {"waiting", "reenter"}
    /\ cb_lock = NoThread
    /\ LET chk == BreakerCheck(cb, now) IN
       /\ cb' = chk.breaker
       /\ cb_trial' = [cb_trial EXCEPT ![t] = chk.trial]
       /\ IF chk.verdict = "pass"
          THEN /\ cb_lock' = t
               /\ cb_pc' = [cb_pc EXCEPT ![t] = "inner"]
               /\ inner_calls' = inner_calls + 1
               /\ UNCHANGED cb_result
          ELSE /\ cb_lock' = NoThread
               /\ cb_pc' = [cb_pc EXCEPT ![t] = "idle"]
               /\ cb_result' = [cb_result EXCEPT ![t] =
                      IF chk.verdict = "reject" THEN "rejected" ELSE "type_error"]
               /\ UNCHANGED inner_calls
    /\ UNCHANGED <<now, consecutive_failures, failures_since_success, notCB>>

\* The inner call returns: _on_success, then the lock is released.
CBInnerReturns(t) ==
    /\ cb_pc[t] = "inner"
    /\ cb' = on_success(cb)
    /\ cb_lock' = NoThread
    /\ cb_pc' = [cb_pc EXCEPT ![t] = "idle"]
    /\ cb_result' = [cb_result EXCEPT ![t] = "returned"]
    /\ consecutive_failures' = 0
    /\ failures_since_success' = 0
    /\ UNCHANGED <<now, cb_trial, inner_calls, notCB>>

\* The inner call raises an instance of expected_exception: _on_failure,
\* the exception is re-raised and the lock released.
CBInnerRaises(t) ==
    /\ cb_pc[t] = "inner"
    /\ cb' = on_failure(cb, now)
    /\ cb_lock' = NoThread
    /\ cb_pc' = [cb_pc EXCEPT ![t] = "idle"]
    /\ cb_result' = [cb_result EXCEPT ![t] = "raised"]
    /\ consecutive_failures' = consecutive_failures + 1
    /\ failures_since_success' = failures_since_success + 1
    /\ UNCHANGED <<now, cb_trial, inner_calls, notCB>>

\* The inner call raises something outside expected_exception: no handler
\* runs, the `with` block releases the lock.
CBInnerEscapes(t) ==
    /\ cb_pc[t] = "inner"
    /\ cb_lock' = NoThread
    /\ cb_pc' = [cb_pc EXCEPT ![t] = "idle"]
    /\ cb_result' = [cb_result EXCEPT ![t] = "escaped"]
    /\ consecutive_failures' = 0
    /\ UNCHANGED <<now, cb, cb_trial, inner_calls, failures_since_success, notCB>>

\* The inner call calls, on its own thread, a function guarded by the same
\* breaker: the nested wrapper reaches `with self._lock` while the outer
\* one holds the lock, a threading.Lock, which has no owner.
CBInnerReenters(t) ==
    /\ cb_pc[t] = "inner"
    /\ cb_pc' = [cb_pc EXCEPT ![t] = "reenter"]
    /\ UNCHANGED <<now, cb, cb_lock, cb_result, cb_trial, inner_calls,
                   consecutive_failures, failures_since_success, notCB>>

CBTick == Tick /\ UNCHANGED <<cbVars, notCB>>

(***************************************************************************)
(* Exceptions.  An exception is its class, what raised it, and the ordinal *)
(* of the call of the undecorated function that raised it (0: none did).   *)
(***************************************************************************)
\* the classes below Exception; KeyboardInterrupt is a BaseException only
ExceptionClasses == {"Exception", "ValueError", "OSError", "TypeError"}

\* what the undecorated function may raise
RawErrors == {"ValueError", "OSError", "KeyboardInterrupt"}

\* isinstance(e, filter) for a tuple of classes
IsInstance_any(cls, filter) == TRUE

IsInstance(cls, filter) ==
    cls \in filter \/ ("Exception" \in filter /\ cls \in ExceptionClasses)

NoException == [class |-> "None", msg |-> "none", origin |-> 0]

\* raise Exception("熔断器开启，服务不可用")
CircuitOpenException == [class |-> "Exception", msg |-> "circuit_open", origin |-> 0]

\* raise Exception("所有降级策略都失败...")
AllFailedException == [class |-> "Exception", msg |-> "all_failed", origin |-> 0]

\* `raise None` and `time.time() - None` are TypeErrors
TypeErrorException == [class |-> "TypeError", msg |-> "none", origin |-> 0]

RawException(cls, k) == [class |-> cls, msg |-> "raw", origin |-> k]

NoResult == [kind |-> "none", by |-> 0, exc |-> NoException]

Returned(k) == [kind |-> "return", by |-> k, exc |-> NoException]

Raised(e) == [kind |-> "raise", by |-> 0, exc |-> e]

(***************************************************************************)
(* RetryStrategy and AdvancedRetry (resilience.py 95-178)                  *)
(***************************************************************************)
Min(a, b) == IF a <= b THEN a ELSE b

RECURSIVE Pow2(_)
Pow2(n) == IF n <= 0 THEN 1 ELSE 2 * Pow2(n - 1)

\* delays are in milliseconds
BaseDelayMs == 1000

MaxDelayMs == 60000

exponential_backoff_unclipped(att, base_delay, max_delay) ==
    base_delay * Pow2(att)

exponential_backoff(att, base_delay, max_delay) ==
    Min(base_delay * Pow2(att), max_delay)

\* the delay_strategy of create_retry_decorator and of AdvancedRetry's default
delay_strategy(att) == exponential_backoff(att, BaseDelayMs, MaxDelayMs)

\* delay *= (0.5 + random.random()): factors of [0.5, 1.5), in percent
JitterPercents == {50, 100, 149}

\* AdvancedRetry.__init__
AdvancedRetry(max_att, excs, jit, cbs) ==
    [max_attempts |-> max_att, exceptions |-> excs, jitter |-> jit, callbacks |-> cbs]

\* `if attempt == self.max_attempts - 1`
IsLastAttempt_off_by_one(att, max_att) == att = max_att

IsLastAttempt_one_early(att, max_att) == att >= max_att - 2

IsLastAttempt_first(att, max_att) == att = 0

IsLastAttempt(att, max_att) == att = max_att - 1

(***************************************************************************)
(* ServiceHealthChecker (resilience.py 180-237)                            *)
(***************************************************************************)
Services == {"llm", "embed"}

\* a key the dict does not hold
NoCount == -1

\* the status for failure_count failures (_handle_service_failure)
FailureStatus_late(failure_count) ==
    IF failure_count > 5 THEN "unavailable"
    ELSE IF failure_count > 3 THEN "failing"
    ELSE "degraded"

FailureStatus(failure_count) ==
    IF failure_count >= 5 THEN "unavailable"
    ELSE IF failure_count >= 3 THEN "failing"
    ELSE "degraded"

HCStart ==
    /\ service_status = [s \in Services |-> "absent"]
    /\ failure_counts = [s \in Services |-> NoCount]
    /\ last_check_time = [s \in Services |-> NoTime]
    /\ hc_result = "none"
    /\ hc_run = [s \in Services |-> 0]

\* register_service
HCRegister(svc) ==
    /\ service_status' = [service_status EXCEPT ![svc] = "healthy"]
    /\ last_check_time' = [last_check_time EXCEPT ![svc] = now]
    /\ failure_counts' = [failure_counts EXCEPT ![svc] = 0]
    /\ hc_result' = "none"
    /\ hc_run' = [hc_run EXCEPT ![svc] = 0]

\* check_service_health, the health check function returning True
\* ("true"), returning False ("false") or raising ("raises")
HCCheck(svc, outcome) ==
    /\ IF outcome = "true"
       THEN /\ service_status' = [service_status EXCEPT ![svc] = "healthy"]
            /\ failure_counts' = [failure_counts EXCEPT ![svc] = 0]
            /\ last_check_time' = [last_check_time EXCEPT ![svc] = now]
            /\ hc_result' = "healthy"
            /\ hc_run' = [hc_run EXCEPT ![svc] = 0]
       ELSE IF failure_counts[svc] = NoCount
       THEN \* failure_counts[service_name] += 1 is a KeyError, in the try
            \* block and again in the except block
            /\ hc_result' = "KeyError"
            /\ UNCHANGED <<service_status, failure_counts, last_check_time, hc_run>>
       ELSE /\ failure_counts' = [failure_counts EXCEPT ![svc] = @ + 1]
            /\ service_status' = [service_status EXCEPT ![svc] =
                                      FailureStatus(failure_counts[svc] + 1)]
            /\ last_check_time' = IF outcome = "false"
                                  THEN [last_check_time EXCEPT ![svc] = now]
                                  ELSE last_check_time
            /\ hc_result' = FailureStatus(failure_counts[svc] + 1)
            /\ hc_run' = [hc_run EXCEPT ![svc] = @ + 1]

\* the most failures in a row a behaviour makes one service's checks report
\* (MaxFailures is a bound of the model)
HCCanFail(svc) == failure_counts[svc] < MaxFailures

\* a caller registers a service with the health checker
HCRegisterService(svc) ==
    /\ HCRegister(svc)
    /\ UNCHANGED <<now, rm_config, circuit_breakers, breakers, fallback_strategies,
                   cbVars, rfVars, lruVars, extVars>>

\* a caller runs check_service_health
HCCheckHealth(svc, outcome) ==
    /\ outcome # "true" => HCCanFail(svc)
    /\ HCCheck(svc, outcome)
    /\ UNCHANGED <<now, rm_config, circuit_breakers, breakers, fallback_strategies,
                   cbVars, rfVars, lruVars, extVars>>

HCTick == Tick /\ UNCHANGED <<rmVars, cbVars, rfVars, lruVars, extVars>>

(***************************************************************************)
(* ResilienceManager and resilient_function (resilience.py 273-395)        *)
(***************************************************************************)
NoBreaker == 0

\* CircuitBreaker's default expected_exception, which create_circuit_breaker keeps
ExpectedException == {"Exception"}

NoFallbacks == [s \in Services |-> [owner |-> 0, n |-> 0]]

NoBreakers == [s \in Services |-> NoBreaker]

RMStart ==
    /\ circuit_breakers = NoBreakers
    /\ breakers = <<>>
    /\ fallback_strategies = NoFallbacks
    /\ HCStart

\* a manager nobody uses
RMIdle == rm_config = [failure_threshold |-> 1, timeout |-> 1] /\ RMStart

\* create_circuit_breaker: the registry, the breaker objects and the new breaker
create_circuit_breaker(registry, heap, config, svc) ==
    [registry |-> [registry EXCEPT ![svc] = Len(heap) + 1],
     heap |-> Append(heap, NewCircuitBreaker(config.failure_threshold, config.timeout)),
     breaker |-> Len(heap) + 1]

\* create_retry_decorator(max_attempts=...)
create_retry_decorator_value_errors(max_att) ==
    AdvancedRetry(max_att, {"ValueError"}, TRUE, FALSE)

create_retry_decorator(max_att) == AdvancedRetry(max_att, {"Exception"}, TRUE, FALSE)

\* A decorated callable: the retry layer's configuration, the breaker inside
\* it (NoBreaker: none), and whether the outer wrapper goes through
\* execute_with_fallback for `service`.
Decorated(retry, svc, breaker, use_fallback) ==
    [service |-> svc, retry |-> retry, breaker |-> breaker, use_fallback |-> use_fallback]

RFStart ==
    /\ rf_pc = "idle"
    /\ rf_fn = 0
    /\ attempt = 0
    /\ last_exception = NoException
    /\ last_delay = 0
    /\ fb_index = 0
    /\ fb_tried = <<>>
    /\ result = NoResult
    /\ raw_calls = 0
    /\ checks = 0
    /\ sleeps = 0
    /\ on_retry_calls = 0
    /\ on_failure_calls = 0
    /\ invocations = 0

\* nothing decorated, nothing invoked
RFIdle == wrapped = <<>> /\ RFStart

\* resilient_function(service_name, max_attempts, enable_circuit_breaker,
\* fallback_strategies)(func), the decorator body: the registries, the
\* breaker objects and the decorated callables after it.  A non-empty
\* fallback list of nfallbacks strategies is registered for the service.
Decorate(registry, heap, fallbacks, fns, config, svc, max_att, enable_circuit_breaker, nfallbacks) ==
    LET retry == create_retry_decorator(max_att)
        made == create_circuit_breaker(registry, heap, config, svc)
    IN [circuit_breakers |-> IF enable_circuit_breaker THEN made.registry ELSE registry,
        breakers |-> IF enable_circuit_breaker THEN made.heap ELSE heap,
        fallback_strategies |->
            IF nfallbacks > 0
            THEN [fallbacks EXCEPT ![svc] = [owner |-> Len(fns) + 1, n |-> nfallbacks]]
            ELSE fallbacks,
        wrapped |-> Append(fns,
            Decorated(retry, svc,
                      IF enable_circuit_breaker THEN made.breaker ELSE NoBreaker,
                      nfallbacks > 0))]

\* a function is decorated while no invocation is under way
RFWrap(svc, max_att, enable_circuit_breaker, nfallbacks) ==
    /\ rf_pc \in {"idle", "done"}
    /\ Len(wrapped) < MaxWraps
    /\ LET d == Decorate(circuit_breakers, breakers, fallback_strategies, wrapped,
                         rm_config, svc, max_att, enable_circuit_breaker, nfallbacks)
       IN /\ circuit_breakers' = d.circuit_breakers
          /\ breakers' = d.breakers
          /\ fallback_strategies' = d.fallback_strategies
          /\ wrapped' = d.wrapped
    /\ UNCHANGED <<now, rm_config, service_status, failure_counts, last_check_time,
                   hc_result, hc_run, rf_pc, rf_fn, attempt, last_exception,
                   last_delay, fb_index, fb_tried, result, raw_calls, checks, sleeps,
                   on_retry_calls, on_failure_calls, invocations, notRF>>

\* get_system_resilience_status()["circuit_breakers"]
BreakerStatus ==
    [s \in {x \in Services : circuit_breakers[x] # NoBreaker} |->
        breakers[circuit_breakers[s]].state]

\* `for i, strategy in enumerate(strategies)`: the first strategy and the
\* one after strategy i
FirstStrategy == 1

StrategyAfter_skipping(i) == i + 2

StrategyAfter(i) == i + 1

\* The retry wrapper of w raises e to its caller: resilient_function's
\* wrapper lets it through, or execute_with_fallback catches it (except
\* Exception) and _try_fallback_strategies starts on the registered list.
RetryRaises_unabsorbed(w, e) ==
    /\ rf_pc' = "done"
    /\ result' = Raised(e)
    /\ fb_index' = 0
    /\ fb_tried' = <<>>

RetryRaises(w, e) ==
    IF w.use_fallback /\ IsInstance(e.class, {"Exception"})
    THEN IF fallback_strategies[w.service].n = 0
         THEN /\ rf_pc' = "done"
              /\ result' = Raised(AllFailedException)
              /\ fb_index' = 0
              /\ fb_tried' = <<>>
         ELSE /\ rf_pc' = "fallback"
              /\ result' = NoResult
              /\ fb_index' = FirstStrategy
              /\ fb_tried' = <<FirstStrategy>>
    ELSE /\ rf_pc' = "done"
         /\ result' = Raised(e)
         /\ fb_index' = 0
         /\ fb_tried' = <<>>

\* The call made in the retry loop's try block raises e (wrapper, 152-173).
RetryCatches(w, e) ==
    IF IsInstance(e.class, w.retry.exceptions)
    THEN /\ last_exception' = e
         /\ IF IsLastAttempt(attempt, w.retry.max_attempts)
            THEN /\ on_failure_calls' =
                        on_failure_calls + (IF w.retry.callbacks THEN 1 ELSE 0)
                 /\ RetryRaises(w, e)
                 /\ UNCHANGED <<last_delay, sleeps, on_retry_calls>>
            ELSE /\ \E pct \in (IF w.retry.jitter THEN JitterPercents ELSE {100}) :
                        last_delay' = (delay_strategy(attempt) * pct) \div 100
                 /\ on_retry_calls' =
                        on_retry_calls + (IF w.retry.callbacks THEN 1 ELSE 0)
                 /\ sleeps' = sleeps + 1
                 /\ rf_pc' = "sleep"
                 /\ UNCHANGED <<result, fb_index, fb_tried, on_failure_calls>>
    ELSE /\ RetryRaises(w, e)
         /\ UNCHANGED <<last_exception, last_delay, sleeps, on_retry_calls,
                        on_failure_calls>>

\* A caller invokes decorated callable i; range(0) runs no attempt and the
\* wrapper reaches `raise last_exception` with None.
RFInvoke(i) ==
    /\ rf_pc \in {"idle", "done"}
    /\ invocations < MaxInvocations
    /\ i \in 1..Len(wrapped)
    /\ rf_fn' = i
    /\ invocations' = invocations + 1
    /\ attempt' = 0
    /\ last_exception' = NoException
    /\ last_delay' = 0
    /\ raw_calls' = 0
    /\ checks' = 0
    /\ sleeps' = 0
    /\ on_retry_calls' = 0
    /\ on_failure_calls' = 0
    /\ IF wrapped[i].retry.max_attempts > 0
       THEN /\ rf_pc' = "attempt"
            /\ result' = NoResult
            /\ fb_index' = 0
            /\ fb_tried' = <<>>
       ELSE RetryRaises(wrapped[i], TypeErrorException)
    /\ UNCHANGED <<now, wrapped, rmVars, notRF>>

\* One pass of the retry loop calls the function it decorates: the breaker's
\* wrapper when there is one (the state check, then the undecorated
\* function), else the undecorated function itself.
RFAttempt ==
    /\ rf_pc = "attempt"
    /\ LET w == wrapped[rf_fn] IN
       IF w.breaker # NoBreaker
       THEN LET chk == BreakerCheck(breakers[w.breaker], now) IN
            /\ breakers' = [breakers EXCEPT ![w.breaker] = chk.breaker]
            /\ checks' = checks + 1
            /\ IF chk.verdict = "pass"
               THEN /\ rf_pc' = "raw"
                    /\ raw_calls' = raw_calls + 1
                    /\ UNCHANGED <<last_exception, last_delay, fb_index, fb_tried, result,
                                   sleeps, on_retry_calls, on_failure_calls>>
               ELSE /\ RetryCatches(w, IF chk.verdict = "reject"
                                       THEN CircuitOpenException
                                       ELSE TypeErrorException)
                    /\ UNCHANGED raw_calls
       ELSE /\ rf_pc' = "raw"
            /\ raw_calls' = raw_calls + 1
            /\ UNCHANGED <<breakers, checks, last_exception, last_delay, fb_index, fb_tried,
                           result, sleeps, on_retry_calls, on_failure_calls>>
    /\ UNCHANGED <<now, rm_config, circuit_breakers, fallback_strategies,
                   service_status, failure_counts, last_check_time, hc_result, hc_run,
                   wrapped, rf_fn, attempt, invocations, notRF>>

\* The undecorated function returns: the breaker's _on_success, and the
\* value goes through every wrapper to the caller.
RFRawReturns_recording ==
    /\ rf_pc = "raw"
    /\ LET w == wrapped[rf_fn] IN
       /\ breakers' = IF w.breaker # NoBreaker
                      THEN [breakers EXCEPT ![w.breaker] = on_success(@)]
                      ELSE breakers
       /\ service_status' = [service_status EXCEPT ![w.service] = "healthy"]
       /\ failure_counts' = [failure_counts EXCEPT ![w.service] = 0]
       /\ last_check_time' = [last_check_time EXCEPT ![w.service] = now]
    /\ rf_pc' = "done"
    /\ result' = Returned(0)
    /\ UNCHANGED <<now, rm_config, circuit_breakers, fallback_strategies,
                   hc_result, hc_run, wrapped, rf_fn, attempt, last_exception, last_delay,
                   fb_index, fb_tried, raw_calls, checks, sleeps, on_retry_calls,
                   on_failure_calls, invocations, notRF>>

RFRawReturns ==
    /\ rf_pc = "raw"
    /\ LET w == wrapped[rf_fn] IN
       breakers' = IF w.breaker # NoBreaker
                   THEN [breakers EXCEPT ![w.breaker] = on_success(@)]
                   ELSE breakers
    /\ rf_pc' = "done"
    /\ result' = Returned(0)
    /\ UNCHANGED <<now, rm_config, circuit_breakers, fallback_strategies,
                   service_status, failure_counts, last_check_time, hc_result, hc_run,
                   wrapped, rf_fn, attempt, last_exception, last_delay,
                   fb_index, fb_tried, raw_calls, checks, sleeps, on_retry_calls,
                   on_failure_calls, invocations, notRF>>

\* The undecorated function raises an exception of class cls: the breaker's
\* _on_failure when cls is an expected_exception, then the retry loop's
\* except clause.
RFRawRaises(cls) ==
    /\ rf_pc = "raw"
    /\ LET w == wrapped[rf_fn] IN
       /\ breakers' = IF w.breaker # NoBreaker /\ IsInstance(cls, ExpectedException)
                      THEN [breakers EXCEPT ![w.breaker] = on_failure(@, now)]
                      ELSE breakers
       /\ RetryCatches(w, RawException(cls, raw_calls))
    /\ UNCHANGED <<now, rm_config, circuit_breakers, fallback_strategies,
                   service_status, failure_counts, last_check_time, hc_result, hc_run,
                   wrapped, rf_fn, attempt, raw_calls, checks,
                   invocations, notRF>>

\* time.sleep(delay) returns and the loop goes to its next pass; a loop that
\* has run out reaches `raise last_exception`.
RFWake ==
    /\ rf_pc = "sleep"
    /\ attempt' = attempt + 1
    /\ last_delay' = 0
    /\ IF attempt + 1 < wrapped[rf_fn].retry.max_attempts
       THEN /\ rf_pc' = "attempt"
            /\ UNCHANGED <<result, fb_index, fb_tried>>
       ELSE RetryRaises(wrapped[rf_fn], last_exception)
    /\ UNCHANGED <<now, rmVars, wrapped, rf_fn, last_exception,
                   raw_calls, checks, sleeps, on_retry_calls, on_failure_calls,
                   invocations, notRF>>

\* The fallback strategy being tried returns.
RFFallbackReturns ==
    /\ rf_pc = "fallback"
    /\ rf_pc' = "done"
    /\ result' = Returned(fb_index)
    /\ UNCHANGED <<now, rmVars, wrapped, rf_fn, attempt, last_exception,
                   last_delay, fb_index, fb_tried, raw_calls, checks, sleeps,
                   on_retry_calls, on_failure_calls, invocations, notRF>>

\* The fallback strategy being tried raises: the next one is tried, and
\* after the last one the final error is raised.
RFFallbackRaises_reraising(cls) ==
    /\ rf_pc = "fallback"
    /\ IF IsInstance(cls, {"Exception"})
       THEN IF fb_index < fallback_strategies[wrapped[rf_fn].service].n
            THEN /\ fb_index' = StrategyAfter(fb_index)
                 /\ fb_tried' = Append(fb_tried, StrategyAfter(fb_index))
                 /\ UNCHANGED <<rf_pc, result>>
            ELSE /\ rf_pc' = "done"
                 /\ result' = Raised(RawException(cls, 0))
                 /\ UNCHANGED <<fb_index, fb_tried>>
       ELSE /\ rf_pc' = "done"
            /\ result' = Raised(RawException(cls, 0))
            /\ UNCHANGED <<fb_index, fb_tried>>
    /\ UNCHANGED <<now, rmVars, wrapped, rf_fn, attempt, last_exception,
                   last_delay, raw_calls, checks, sleeps, on_retry_calls,
                   on_failure_calls, invocations, notRF>>

RFFallbackRaises(cls) ==
    /\ rf_pc = "fallback"
    /\ IF IsInstance(cls, {"Exception"})
       THEN IF fb_index < fallback_strategies[wrapped[rf_fn].service].n
            THEN /\ fb_index' = StrategyAfter(fb_index)
                 /\ fb_tried' = Append(fb_tried, StrategyAfter(fb_index))
                 /\ UNCHANGED <<rf_pc, result>>
            ELSE /\ rf_pc' = "done"
                 /\ result' = Raised(AllFailedException)
                 /\ UNCHANGED <<fb_index, fb_tried>>
       ELSE /\ rf_pc' = "done"
            /\ result' = Raised(RawException(cls, 0))
            /\ UNCHANGED <<fb_index, fb_tried>>
    /\ UNCHANGED <<now, rmVars, wrapped, rf_fn, attempt, last_exception,
                   last_delay, raw_calls, checks, sleeps, on_retry_calls,
                   on_failure_calls, invocations, notRF>>

\* the application registers the health check of a decorated callable's
\* service
RFRegister(svc) ==
    /\ service_status[svc] = "absent"
    /\ \E i \in 1..Len(wrapped) : wrapped[i].service = svc
    /\ HCRegister(svc)
    /\ UNCHANGED <<now, rm_config, circuit_breakers, breakers, fallback_strategies,
                   rfVars, notRF>>

RFTick == Tick /\ UNCHANGED <<rmVars, rfVars, notRF>>

(***************************************************************************)
(* LRUCache (memory_optimizer.py 112-188)                                  *)
(***************************************************************************)
Keys == 1..NumKeys

Values == 1..NumValues

\* get's None
Miss == 0

NoKey == 0

\* ttl=None, the default: entries never expire
NoTTL == 0

CacheKeys(c) == {c[i].k : i \in 1..Len(c)}

ValueOf(c, key) == (CHOOSE e \in {c[i] : i \in 1..Len(c)} : e.k = key).v

\* OrderedDict.pop(key, None)
Without(c, key) == SelectSeq(c, LAMBDA e : e.k # key)

\* self._cache[key] = value: a new key goes to the end, a key the dict
\* holds keeps its place
Insert(c, key, value) ==
    IF key \in CacheKeys(c)
    THEN [i \in 1..Len(c) |-> IF c[i].k = key THEN [k |-> key, v |-> value] ELSE c[i]]
    ELSE Append(c, [k |-> key, v |-> value])

\* get's `value = self._cache.pop(key)`
GetPop_in_place(c, key) == c

GetPop(c, key) == Without(c, key)

\* put's `len(self._cache) >= self.max_size`
IsFull(c, max_size) == Len(c) >= max_size

\* put's `oldest_key = next(iter(self._cache))`
oldest_key(c) == c[1].k

\* get's `self.ttl and time.time() - self._timestamps[key] > self.ttl`
Expired_at_ttl(ttl, timestamps, key, t) == ttl # NoTTL /\ t - timestamps[key] >= ttl

Expired(ttl, timestamps, key, t) == ttl # NoTTL /\ t - timestamps[key] > ttl

\* `with self._lock` can be entered by t
CanLock_unguarded(lock, t) == TRUE

CanLock(lock, t) == lock = NoThread \/ lock = t

NoPut == [key |-> NoKey, was_present |-> FALSE, was_full |-> FALSE,
          lru_key |-> NoKey, removed |-> {}]

\* key has just been put or hit
Use(used, key) == Append(SelectSeq(used, LAMBDA k : k # key), key)

\* the stored key whose last put or hit is the oldest
LeastRecentlyUsed(c, used) ==
    IF \A i \in 1..Len(used) : used[i] \notin CacheKeys(c) THEN NoKey
    ELSE used[CHOOSE i \in 1..Len(used) :
                  /\ used[i] \in CacheKeys(c)
                  /\ \A j \in 1..(i - 1) : used[j] \notin CacheKeys(c)]

LRUStart ==
    /\ lru_cache = <<>>
    /\ lru_timestamps = [k \in Keys |-> NoTime]
    /\ lru_hits = 0
    /\ lru_misses = 0
    /\ lru_lock = NoThread
    /\ lru_pc = [t \in Threads |-> [at |-> "idle", key |-> NoKey, value |-> Miss]]
    /\ lru_ret = [t \in Threads |-> Miss]
    /\ lru_ops = 0
    /\ lru_used = <<>>
    /\ lru_last = NoPut

\* a cache nobody uses
LRUIdle == lru_max_size = 1 /\ lru_ttl = NoTTL /\ LRUStart

Idle == [at |-> "idle", key |-> NoKey, value |-> Miss]

\* get(key), up to the return of a miss or to `value = self._cache.pop(key)`
LRUGet(t, key) ==
    /\ lru_pc[t].at = "idle"
    /\ lru_ops < MaxOps
    /\ CanLock(lru_lock, t)
    /\ lru_ops' = lru_ops + 1
    /\ IF key \notin CacheKeys(lru_cache)
       THEN /\ lru_misses' = lru_misses + 1
            /\ lru_ret' = [lru_ret EXCEPT ![t] = Miss]
            /\ lru_lock' = NoThread
            /\ UNCHANGED <<lru_cache, lru_timestamps, lru_pc>>
       ELSE IF Expired(lru_ttl, lru_timestamps, key, now)
       THEN \* _remove(key)
            /\ lru_cache' = Without(lru_cache, key)
            /\ lru_timestamps' = [lru_timestamps EXCEPT ![key] = NoTime]
            /\ lru_misses' = lru_misses + 1
            /\ lru_ret' = [lru_ret EXCEPT ![t] = Miss]
            /\ lru_lock' = NoThread
            /\ UNCHANGED lru_pc
       ELSE /\ lru_cache' = GetPop(lru_cache, key)
            /\ lru_pc' = [lru_pc EXCEPT ![t] =
                   [at |-> "get", key |-> key, value |-> ValueOf(lru_cache, key)]]
            /\ lru_lock' = t
            /\ UNCHANGED <<lru_timestamps, lru_misses, lru_ret>>
    /\ UNCHANGED <<now, lru_max_size, lru_ttl, lru_hits, lru_used, lru_last, notLRU>>

\* a hit that is not counted
LRUGetHit_uncounted(t) ==
    /\ lru_pc[t].at = "get"
    /\ lru_cache' = Insert(lru_cache, lru_pc[t].key, lru_pc[t].value)
    /\ lru_ret' = [lru_ret EXCEPT ![t] = lru_pc[t].value]
    /\ lru_used' = Use(lru_used, lru_pc[t].key)
    /\ lru_pc' = [lru_pc EXCEPT ![t] = Idle]
    /\ lru_lock' = NoThread
    /\ UNCHANGED <<now, lru_max_size, lru_ttl, lru_timestamps, lru_hits, lru_misses,
                   lru_ops, lru_last, notLRU>>

\* get(key), from `self._cache[key] = value` to the return of the hit
LRUGetHit(t) ==
    /\ lru_pc[t].at = "get"
    /\ lru_cache' = Insert(lru_cache, lru_pc[t].key, lru_pc[t].value)
    /\ lru_hits' = lru_hits + 1
    /\ lru_ret' = [lru_ret EXCEPT ![t] = lru_pc[t].value]
    /\ lru_used' = Use(lru_used, lru_pc[t].key)
    /\ lru_pc' = [lru_pc EXCEPT ![t] = Idle]
    /\ lru_lock' = NoThread
    /\ UNCHANGED <<now, lru_max_size, lru_ttl, lru_timestamps, lru_misses, lru_ops,
                   lru_last, notLRU>>

\* put(key, value), up to the insertion: a key the cache holds is popped,
\* else the oldest entry of a full cache is removed
LRUPut(t, key, value) ==
    /\ lru_pc[t].at = "idle"
    /\ lru_ops < MaxOps
    /\ CanLock(lru_lock, t)
    /\ lru_ops' = lru_ops + 1
    /\ lru_lock' = t
    /\ lru_pc' = [lru_pc EXCEPT ![t] = [at |-> "put", key |-> key, value |-> value]]
    /\ IF key \in CacheKeys(lru_cache)
       THEN /\ lru_cache' = Without(lru_cache, key)
            /\ UNCHANGED lru_timestamps
       ELSE IF IsFull(lru_cache, lru_max_size)
       THEN \* _remove(oldest_key)
            /\ lru_cache' = Without(lru_cache, oldest_key(lru_cache))
            /\ lru_timestamps' =
                   [lru_timestamps EXCEPT ![oldest_key(lru_cache)] = NoTime]
       ELSE UNCHANGED <<lru_cache, lru_timestamps>>
    /\ lru_last' = [key |-> key,
                    was_present |-> key \in CacheKeys(lru_cache),
                    was_full |-> Len(lru_cache) = lru_max_size,
                    lru_key |-> LeastRecentlyUsed(lru_cache, lru_used),
                    removed |-> (CacheKeys(lru_cache) \ CacheKeys(lru_cache')) \ {key}]
    /\ UNCHANGED <<now, lru_max_size, lru_ttl, lru_hits, lru_misses, lru_ret,
                   lru_used, notLRU>>

\* put(key, value): the insertion and the timestamp
LRUPutInsert(t) ==
    /\ lru_pc[t].at = "put"
    /\ lru_cache' = Insert(lru_cache, lru_pc[t].key, lru_pc[t].value)
    /\ lru_timestamps' = [lru_timestamps EXCEPT ![lru_pc[t].key] = now]
    /\ lru_used' = Use(lru_used, lru_pc[t].key)
    /\ lru_pc' = [lru_pc EXCEPT ![t] = Idle]
    /\ lru_lock' = NoThread
    /\ UNCHANGED <<now, lru_max_size, lru_ttl, lru_hits, lru_misses, lru_ret,
                   lru_ops, lru_last, notLRU>>

\* clear(): self._cache.clear()
LRUClear(t) ==
    /\ lru_pc[t].at = "idle"
    /\ lru_ops < MaxOps
    /\ CanLock(lru_lock, t)
    /\ lru_ops' = lru_ops + 1
    /\ lru_lock' = t
    /\ lru_pc' = [lru_pc EXCEPT ![t] = [at |-> "clear", key |-> NoKey, value |-> Miss]]
    /\ lru_cache' = <<>>
    /\ UNCHANGED <<now, lru_max_size, lru_ttl, lru_timestamps, lru_hits, lru_misses,
                   lru_ret, lru_used, lru_last, notLRU>>

\* clear(): self._timestamps.clear()
LRUClearTimestamps(t) ==
    /\ lru_pc[t].at = "clear"
    /\ lru_timestamps' = [k \in Keys |-> NoTime]
    /\ lru_pc' = [lru_pc EXCEPT ![t] = Idle]
    /\ lru_lock' = NoThread
    /\ UNCHANGED <<now, lru_max_size, lru_ttl, lru_cache, lru_hits, lru_misses,
                   lru_ret, lru_ops, lru_used, lru_last, notLRU>>

LRUTick == Tick /\ UNCHANGED <<lruVars, notLRU>>

\* get_stats(): size, hits and misses of what it returns
get_stats(c, hits, misses) == [size |-> Len(c), hits |-> hits, misses |-> misses]

(***************************************************************************)
(* MemoryMonitor (memory_optimizer.py 20-110).  Time is in clock ticks;    *)
(* a step that does not block is taken before the clock moves on.          *)
(***************************************************************************)
\* self.monitor_thread = None
NoMonitor == 0

\* threshold_mb: int = 2048
ThresholdMb == 2048

\* the process memory a sample may report: below, at and over the threshold
Samples == {ThresholdMb - 1, ThresholdMb, ThresholdMb + 1}

\* no sample taken in this pass of the loop
NoSample == -1

\* join(timeout=5.0), in clock ticks
JoinTimeout == 1

\* a thread just started on _monitor_loop: where it is, the callback it is
\* in, when its sleep ends, its last sample, and the callbacks it has called
\* and those that raised an Exception since that sample
NewMonitorThread ==
    [pc |-> "check", callback |-> 0, wake_at |-> 0, sample |-> NoSample,
     called |-> <<>>, failed |-> {}]

MonStart ==
    /\ mon_monitoring = FALSE
    /\ mon_thread = NoMonitor
    /\ mon_callbacks = 0
    /\ mon_threads = <<>>
    /\ mon_app = "idle"
    /\ mon_deadline = 0
    /\ mon_stop_result = "none"
    /\ mon_stops = 0

\* a monitor nobody uses
MonIdle == mon_threshold_mb = ThresholdMb /\ mon_check_interval = 1 /\ MonStart


\* `if memory_info["process_memory_mb"] > self.threshold_mb`
OverThreshold_inclusive(mb, threshold_mb) == mb >= threshold_mb

OverThreshold(mb, threshold_mb) == mb > threshold_mb

\* the thread goes to time.sleep(self.check_interval)
Sleeping(th, t, interval) ==
    [th EXCEPT !.pc = "sleep", !.callback = 0, !.wake_at = t + interval]

\* `for callback in self.callbacks`: the loop's next pass after callback i,
\* over the list as it is now
NextCallback(th, i, ncallbacks, t, interval) ==
    IF i < ncallbacks
    THEN [th EXCEPT !.pc = "callback", !.callback = i + 1,
                    !.called = Append(th.called, i + 1)]
    ELSE Sleeping(th, t, interval)

MonUnchangedApp ==
    UNCHANGED <<mon_threshold_mb, mon_check_interval, mon_monitoring, mon_thread,
                mon_callbacks, mon_app, mon_deadline, mon_stop_result, mon_stops>>

\* start_monitoring
MonStartMonitoring ==
    /\ mon_app = "idle"
    /\ IF mon_monitoring
       THEN UNCHANGED <<mon_monitoring, mon_thread, mon_threads>>
       ELSE /\ Len(mon_threads) < MaxStarts
            /\ mon_monitoring' = TRUE
            /\ mon_threads' = Append(mon_threads, NewMonitorThread)
            /\ mon_thread' = Len(mon_threads) + 1
    /\ UNCHANGED <<now, mon_threshold_mb, mon_check_interval, mon_callbacks, mon_app,
                   mon_deadline, mon_stop_result, mon_stops, notMon>>

\* start_monitoring once more, after a stop and after the starts above
MonRestart ==
    /\ mon_app = "idle"
    /\ ~mon_monitoring
    /\ mon_stops > 0
    /\ Len(mon_threads) = MaxStarts
    /\ mon_monitoring' = TRUE
    /\ mon_threads' = Append(mon_threads, NewMonitorThread)
    /\ mon_thread' = Len(mon_threads) + 1
    /\ UNCHANGED <<now, mon_threshold_mb, mon_check_interval, mon_callbacks, mon_app,
                   mon_deadline, mon_stop_result, mon_stops, notMon>>

\* add_callback
MonAddCallback ==
    /\ mon_callbacks < MaxCallbacks
    /\ mon_callbacks' = mon_callbacks + 1
    /\ UNCHANGED <<now, mon_threshold_mb, mon_check_interval, mon_monitoring,
                   mon_thread, mon_threads, mon_app, mon_deadline, mon_stop_result,
                   mon_stops, notMon>>

\* stop_monitoring, up to the join: without a thread it returns at once
MonStopMonitoring ==
    /\ mon_app = "idle"
    /\ mon_stops < MaxStops
    /\ mon_stops' = mon_stops + 1
    /\ mon_monitoring' = FALSE
    /\ IF mon_thread # NoMonitor
       THEN /\ mon_app' = "joining"
            /\ mon_deadline' = now + JoinTimeout
            /\ mon_stop_result' = "none"
       ELSE /\ mon_stop_result' = "returned"
            /\ UNCHANGED <<mon_app, mon_deadline>>
    /\ UNCHANGED <<now, mon_threshold_mb, mon_check_interval, mon_thread,
                   mon_callbacks, mon_threads, notMon>>

\* the join returns because the thread has ended
MonJoinReturns ==
    /\ mon_app = "joining"
    /\ mon_threads[mon_thread].pc = "dead"
    /\ mon_app' = "idle"
    /\ mon_stop_result' = "joined"
    /\ UNCHANGED <<now, mon_threshold_mb, mon_check_interval, mon_monitoring,
                   mon_thread, mon_callbacks, mon_threads, mon_deadline, mon_stops,
                   notMon>>

\* the join returns because its timeout has run out
MonJoinTimesOut ==
    /\ mon_app = "joining"
    /\ mon_threads[mon_thread].pc # "dead"
    /\ now >= mon_deadline
    /\ mon_app' = "idle"
    /\ mon_stop_result' = "timed_out"
    /\ UNCHANGED <<now, mon_threshold_mb, mon_check_interval, mon_monitoring,
                   mon_thread, mon_callbacks, mon_threads, mon_deadline, mon_stops,
                   notMon>>

\* `while self.monitoring`
MonCheck(k) ==
    /\ k \in 1..Len(mon_threads)
    /\ mon_threads[k].pc = "check"
    /\ mon_threads' = [mon_threads EXCEPT ![k].pc =
                           IF mon_monitoring THEN "sample" ELSE "dead"]
    /\ MonUnchangedApp
    /\ UNCHANGED <<now, notMon>>

\* get_memory_info returns a sample of mb, and the first callback is called
\* when it is over the threshold
MonSample(k, mb) ==
    /\ k \in 1..Len(mon_threads)
    /\ mon_threads[k].pc = "sample"
    /\ LET th == [mon_threads[k] EXCEPT !.sample = mb, !.called = <<>>, !.failed = {}] IN
       mon_threads' = [mon_threads EXCEPT ![k] =
           IF OverThreshold(mb, mon_threshold_mb)
           THEN NextCallback(th, 0, mon_callbacks, now, mon_check_interval)
           ELSE Sleeping(th, now, mon_check_interval)]
    /\ MonUnchangedApp
    /\ UNCHANGED <<now, notMon>>

\* get_memory_info raises: the loop's own except clause logs and sleeps
MonSampleRaises(k) ==
    /\ k \in 1..Len(mon_threads)
    /\ mon_threads[k].pc = "sample"
    /\ mon_threads' = [mon_threads EXCEPT ![k] =
           Sleeping([@ EXCEPT !.sample = NoSample, !.called = <<>>, !.failed = {}],
                    now, mon_check_interval)]
    /\ MonUnchangedApp
    /\ UNCHANGED <<now, notMon>>

\* the callback under way returns: the next callback is called, or the
\* thread goes to sleep
MonCallbackReturns(k) ==
    /\ k \in 1..Len(mon_threads)
    /\ mon_threads[k].pc = "callback"
    /\ mon_threads' = [mon_threads EXCEPT ![k] =
           NextCallback(@, @.callback, mon_callbacks, now, mon_check_interval)]
    /\ MonUnchangedApp
    /\ UNCHANGED <<now, notMon>>

\* `except Exception as e` around one callback: the error is logged and the
\* for loop goes on
AfterCallbackRaised_to_loop(th, i, ncallbacks, t, interval) ==
    Sleeping(th, t, interval)

AfterCallbackRaised(th, i, ncallbacks, t, interval) ==
    NextCallback(th, i, ncallbacks, t, interval)

\* the callback under way raises an Exception
MonCallbackRaises(k) ==
    /\ k \in 1..Len(mon_threads)
    /\ mon_threads[k].pc = "callback"
    /\ mon_threads' = [mon_threads EXCEPT ![k] =
           AfterCallbackRaised([@ EXCEPT !.failed = @ \cup {mon_threads[k].callback}],
                               @.callback, mon_callbacks, now, mon_check_interval)]
    /\ MonUnchangedApp
    /\ UNCHANGED <<now, notMon>>

\* the callback under way raises something that is not an Exception
\* (SystemExit): neither except clause catches it and the thread ends
MonCallbackEscapes(k) ==
    /\ k \in 1..Len(mon_threads)
    /\ mon_threads[k].pc = "callback"
    /\ mon_threads' = [mon_threads EXCEPT ![k].pc = "dead", ![k].callback = 0]
    /\ MonUnchangedApp
    /\ UNCHANGED <<now, notMon>>

\* time.sleep(self.check_interval) returns, and the loop comes back to its
\* `while` with nothing kept of the pass before
MonWake(k) ==
    /\ k \in 1..Len(mon_threads)
    /\ mon_threads[k].pc = "sleep"
    /\ now >= mon_threads[k].wake_at
    /\ mon_threads' = [mon_threads EXCEPT ![k] = NewMonitorThread]
    /\ MonUnchangedApp
    /\ UNCHANGED <<now, notMon>>

\* no thread has a step to take that does not wait for the clock
MonQuiet_unbounded_join ==
    \A k \in 1..Len(mon_threads) :
        \/ mon_threads[k].pc \in {"callback", "dead"}
        \/ mon_threads[k].pc = "sleep" /\ now < mon_threads[k].wake_at

MonQuiet ==
    /\ \A k \in 1..Len(mon_threads) :
           \/ mon_threads[k].pc \in {"callback", "dead"}
           \/ mon_threads[k].pc = "sleep" /\ now < mon_threads[k].wake_at
    /\ mon_app = "joining" =>
           (mon_threads[mon_thread].pc # "dead" /\ now < mon_deadline)

MonTick == MonQuiet /\ Tick /\ UNCHANGED <<cbVars, rmVars, rfVars, lruVars, extVars>>

(***************************************************************************)
(* MemoryPool and MemoryOptimizer                                          *)
(***************************************************************************)
Types == 1..NumTypes

CacheNames == 1..NumNames

\* MemoryOptimizer.__init__: self.memory_pool = MemoryPool(), pool_size_mb = 100
DefaultPoolSizeMb == 100

\* self.free_objects = {}
NoFree == <<>>

\* sum(len(objects) for objects in self.free_objects.values())
RECURSIVE current_size(_, _)
current_size(free, types) ==
    IF types = {}
    THEN 0
    ELSE LET ty == CHOOSE t \in types : TRUE
         IN  free[ty] + current_size(free, types \ {ty})

\* `if current_size < self.pool_size_mb * 10`
UnderCap_inclusive(free, size_mb) == current_size(free, DOMAIN free) <= size_mb * 10

UnderCap(free, size_mb) == current_size(free, DOMAIN free) < size_mb * 10

PoolStart ==
    /\ free_objects = NoFree
    /\ pool_last = [op |-> "none", type |-> 0]

OptStart ==
    /\ opt_caches = <<>>
    /\ opt_sizes = <<>>
    /\ opt_callbacks = 0
    /\ opt_pc = "idle"
    /\ opt_called = <<>>
    /\ opt_failed = {}
    /\ opt_written = FALSE

\* an optimizer nobody uses
OptIdle == pool_size_mb = DefaultPoolSizeMb /\ PoolStart /\ OptStart

\* get_object: a free object of the type is popped, or the factory is called
PoolGetObject(ty) ==
    /\ IF ty \in DOMAIN free_objects /\ free_objects[ty] > 0
       THEN /\ free_objects' = [free_objects EXCEPT ![ty] = @ - 1]
            /\ pool_last' = [op |-> "reused", type |-> ty]
       ELSE /\ pool_last' = [op |-> "created", type |-> ty]
            /\ UNCHANGED free_objects
    /\ UNCHANGED <<now, pool_size_mb, opt_caches, opt_sizes, opt_callbacks, opt_pc,
                   opt_called, opt_failed, opt_written, notOpt>>

\* return_object: the type gets its list, and the object is kept under the cap
PoolReturnObject(ty) ==
    /\ LET free == [t \in DOMAIN free_objects \cup {ty} |->
                       IF t \in DOMAIN free_objects THEN free_objects[t] ELSE 0]
       IN  IF UnderCap(free, pool_size_mb)
           THEN /\ free_objects' = [free EXCEPT ![ty] = @ + 1]
                /\ pool_last' = [op |-> "kept", type |-> ty]
           ELSE /\ free_objects' = free
                /\ pool_last' = [op |-> "dropped", type |-> ty]
    /\ opt_written' = (opt_written \/ opt_pc # "idle")
    /\ UNCHANGED <<now, pool_size_mb, opt_caches, opt_sizes, opt_callbacks, opt_pc,
                   opt_called, opt_failed, notOpt>>

\* clear_pool
PoolClearPool ==
    /\ free_objects' = NoFree
    /\ pool_last' = [op |-> "cleared", type |-> 0]
    /\ UNCHANGED <<now, pool_size_mb, opt_caches, opt_sizes, opt_callbacks, opt_pc,
                   opt_called, opt_failed, opt_written, notOpt>>

\* return_object on the optimizer's pool
OptReturnObject(ty) ==
    /\ current_size(free_objects, DOMAIN free_objects) < MaxFree
    /\ PoolReturnObject(ty)

\* create_cache: a new cache takes the name
OptCreateCache(name) ==
    /\ Len(opt_sizes) < MaxCaches
    /\ opt_sizes' = Append(opt_sizes, 0)
    /\ opt_caches' = [n \in DOMAIN opt_caches \cup {name} |->
                         IF n = name THEN Len(opt_sizes) + 1 ELSE opt_caches[n]]
    /\ opt_written' = (opt_written \/ opt_pc # "idle")
    /\ UNCHANGED <<now, pool_size_mb, free_objects, pool_last, opt_callbacks, opt_pc,
                   opt_called, opt_failed, notOpt>>

\* the holder of cache c puts an entry under its one key
OptCachePut(c) ==
    /\ c \in 1..Len(opt_sizes)
    /\ opt_sizes' = [opt_sizes EXCEPT ![c] = 1]
    /\ opt_written' = (opt_written \/ opt_pc # "idle")
    /\ UNCHANGED <<now, pool_size_mb, free_objects, pool_last, opt_caches,
                   opt_callbacks, opt_pc, opt_called, opt_failed, notOpt>>

\* add_optimization_callback
OptAddCallback ==
    /\ opt_callbacks < MaxCallbacks
    /\ opt_callbacks' = opt_callbacks + 1
    /\ opt_written' = (opt_written \/ opt_pc # "idle")
    /\ UNCHANGED <<now, pool_size_mb, free_objects, pool_last, opt_caches, opt_sizes,
                   opt_pc, opt_called, opt_failed, notOpt>>

\* `for name, cache in self.caches.items(): cache.clear()`
ClearedCaches_kept(sizes, caches) == sizes

ClearedCaches(sizes, caches) ==
    [c \in 1..Len(sizes) |->
        IF \E n \in DOMAIN caches : caches[n] = c THEN 0 ELSE sizes[c]]

\* `for callback in self._optimization_callbacks`: the loop's next pass
\* after callback i
AfterOptCallback(i, ncallbacks, called) ==
    IF i < ncallbacks
    THEN [pc |-> "callback", called |-> Append(called, i + 1)]
    ELSE [pc |-> "sample", called |-> called]

\* _default_memory_optimization, up to the first custom callback: garbage
\* collection, every cache of the registry cleared, the pool cleared
OptCleanup ==
    /\ opt_pc \in {"idle", "done", "raised"}
    /\ opt_sizes' = ClearedCaches(opt_sizes, opt_caches)
    /\ free_objects' = NoFree
    /\ pool_last' = [op |-> "cleared", type |-> 0]
    /\ LET nx == AfterOptCallback(0, opt_callbacks, <<>>) IN
           opt_pc' = nx.pc /\ opt_called' = nx.called
    /\ opt_failed' = {}
    /\ opt_written' = FALSE
    /\ UNCHANGED <<now, pool_size_mb, opt_caches, opt_callbacks, notOpt>>

\* the custom callback under way returns
OptCallbackReturns ==
    /\ opt_pc = "callback"
    /\ LET nx == AfterOptCallback(Len(opt_called), opt_callbacks, opt_called) IN
           opt_pc' = nx.pc /\ opt_called' = nx.called
    /\ UNCHANGED <<now, pool_size_mb, free_objects, pool_last, opt_caches, opt_sizes,
                   opt_callbacks, opt_failed, opt_written, notOpt>>

\* the custom callback under way raises an Exception, which is logged
OptCallbackRaises ==
    /\ opt_pc = "callback"
    /\ opt_failed' = opt_failed \cup {Len(opt_called)}
    /\ LET nx == AfterOptCallback(Len(opt_called), opt_callbacks, opt_called) IN
           opt_pc' = nx.pc /\ opt_called' = nx.called
    /\ UNCHANGED <<now, pool_size_mb, free_objects, pool_last, opt_caches, opt_sizes,
                   opt_callbacks, opt_written, notOpt>>

\* an error leaves _default_memory_optimization: a custom callback's that is
\* not an Exception, or get_memory_info's at the end
OptRaises ==
    /\ opt_pc \in {"callback", "sample"}
    /\ opt_pc' = "raised"
    /\ UNCHANGED <<now, pool_size_mb, free_objects, pool_last, opt_caches, opt_sizes,
                   opt_callbacks, opt_called, opt_failed, opt_written, notOpt>>

\* the second sample is taken and _default_memory_optimization returns
OptFinish ==
    /\ opt_pc = "sample"
    /\ opt_pc' = "done"
    /\ UNCHANGED <<now, pool_size_mb, free_objects, pool_last, opt_caches, opt_sizes,
                   opt_callbacks, opt_called, opt_failed, opt_written, notOpt>>

(***************************************************************************)
(* retry_on_failure (helpers.py 287-309)                                   *)
(***************************************************************************)
\* def retry_on_failure(max_retries: int = 3, delay: float = 1.0)
DefaultMaxRetries == 3

\* a decorated function nobody has called, decorated with max_retries = n
ROFIdle(n) ==
    /\ rof_max_retries = n
    /\ rof_pc = "idle"
    /\ rof_attempt = 0
    /\ rof_calls = 0
    /\ rof_errors = <<>>
    /\ rof_result = NoResult
    /\ rof_invocations = 0

\* `if attempt == max_retries`
IsLastRetry_early(att, max_retries) == att >= max_retries - 1

IsLastRetry(att, max_retries) == att = max_retries

\* the wrapper is called: `for attempt in range(max_retries + 1)`
ROFInvoke ==
    /\ rof_pc = "idle"
    /\ rof_invocations < MaxInvocations
    /\ rof_invocations' = rof_invocations + 1
    /\ rof_attempt' = 0
    /\ rof_calls' = 0
    /\ rof_errors' = <<>>
    /\ rof_result' = NoResult
    /\ rof_pc' = "call"
    /\ UNCHANGED <<now, rof_max_retries, notROF>>

\* `return func(*args, **kwargs)`
ROFReturns ==
    /\ rof_pc = "call"
    /\ rof_calls' = rof_calls + 1
    /\ rof_result' = Returned(rof_calls + 1)
    /\ rof_pc' = "idle"
    /\ UNCHANGED <<now, rof_max_retries, rof_attempt, rof_errors, rof_invocations, notROF>>

\* func raises: an Exception is raised again on the last attempt and slept
\* on before it; any other error leaves the wrapper at once
ROFRaises(cls) ==
    /\ rof_pc = "call"
    /\ rof_calls' = rof_calls + 1
    /\ rof_errors' = Append(rof_errors, cls)
    /\ IF ~IsInstance(cls, {"Exception"}) \/ IsLastRetry(rof_attempt, rof_max_retries)
       THEN /\ rof_result' = Raised(RawException(cls, rof_calls + 1))
            /\ rof_pc' = "idle"
       ELSE /\ rof_pc' = "sleep"
            /\ UNCHANGED rof_result
    /\ UNCHANGED <<now, rof_max_retries, rof_attempt, rof_invocations, notROF>>

\* time.sleep(delay) returns: the loop's next pass, or its end, after which
\* the wrapper returns None
ROFWake ==
    /\ rof_pc = "sleep"
    /\ rof_attempt' = rof_attempt + 1
    /\ IF rof_attempt + 1 <= rof_max_retries
       THEN rof_pc' = "call" /\ UNCHANGED rof_result
       ELSE rof_pc' = "idle" /\ rof_result' = Returned(0)
    /\ UNCHANGED <<now, rof_max_retries, rof_calls, rof_errors, rof_invocations, notROF>>

(***************************************************************************)
(* RetryStrategy called attempt after attempt                              *)
(***************************************************************************)
\* return base_delay + (attempt * increment)
linear_backoff(att, base_delay, increment) == base_delay + (att * increment)

\* strategies nobody has called
BOIdle(base_delay, max_delay, increment) ==
    /\ bo_base_delay = base_delay
    /\ bo_max_delay = max_delay
    /\ bo_increment = increment
    /\ bo_attempt = 0
    /\ bo_exponential = 0
    /\ bo_linear = 0
    /\ bo_previous = 0

\* exponential_backoff and linear_backoff are called for the next attempt
BODelay ==
    /\ bo_attempt <= MaxBackoffAttempt
    /\ bo_attempt' = bo_attempt + 1
    /\ bo_previous' = bo_exponential
    /\ bo_exponential' = exponential_backoff(bo_attempt, bo_base_delay, bo_max_delay)
    /\ bo_linear' = linear_backoff(bo_attempt, bo_base_delay, bo_increment)
    /\ UNCHANGED <<now, bo_base_delay, bo_max_delay, bo_increment, notBO>>

(***************************************************************************)
(* memory_optimized (memory_optimizer.py 312-344)                          *)
(* One decorated function of one positional argument, called by one        *)
(* thread; an argument stands for the cache_key the wrapper builds from    *)
(* it, and Miss stands for None, as a cached value too.  The cache has no  *)
(* ttl.                                                                    *)
(***************************************************************************)
\* a decorated function nobody has called
MOIdle(max_size, func) ==
    /\ mo_max_size = max_size
    /\ mo_func = func
    /\ mo_cache = <<>>
    /\ mo_last = [arg |-> NoKey, stored |-> FALSE, executed |-> FALSE, ret |-> Miss]

\* the _cache after put(key, value)
AfterPut(c, key, value, max_size) ==
    Insert(IF key \in CacheKeys(c) THEN Without(c, key)
           ELSE IF IsFull(c, max_size) THEN Without(c, oldest_key(c))
           ELSE c,
           key, value)

\* wrapper(arg): cache.get, and the function and cache.put unless get
\* returned something other than None
MOCall(arg) ==
    LET stored == arg \in CacheKeys(mo_cache)
        got == IF stored THEN ValueOf(mo_cache, arg) ELSE Miss
        after_get == IF stored THEN Insert(GetPop(mo_cache, arg), arg, got)
                     ELSE mo_cache
    IN  /\ IF got # Miss
           THEN /\ mo_cache' = after_get
                /\ mo_last' = [arg |-> arg, stored |-> stored,
                               executed |-> FALSE, ret |-> got]
           ELSE /\ mo_cache' = AfterPut(after_get, arg, mo_func[arg], mo_max_size)
                /\ mo_last' = [arg |-> arg, stored |-> stored,
                               executed |-> TRUE, ret |-> mo_func[arg]]
        /\ UNCHANGED <<now, mo_max_size, mo_func, notMO>>

\* wrapper.clear_cache()
MOClear ==
    /\ mo_cache # <<>>
    /\ mo_cache' = <<>>
    /\ UNCHANGED <<now, mo_max_size, mo_func, mo_last, notMO>>

ExtIdle ==
    /\ MonIdle
    /\ OptIdle
    /\ ROFIdle(DefaultMaxRetries)
    /\ BOIdle(BaseDelayMs, MaxDelayMs, BaseDelayMs)
    /\ MOIdle(1, [a \in Keys |-> Miss])

(***************************************************************************)
(* Specifications                                                          *)
(***************************************************************************)
\* one CircuitBreaker called by several threads
InitCB ==
    /\ now = 0
    /\ ExtIdle
    /\ \E th \in 1..MaxThreshold, tmo \in 1..MaxTimeout :
           cb = NewCircuitBreaker(th, tmo)
    /\ CBStart
    /\ RMIdle
    /\ RFIdle
    /\ LRUIdle

NextCB ==
    \/ CBTick
    \/ \E t \in Threads : CBCall(t)
    \/ \E t \in Threads : CBEnter(t)
    \/ \E t \in Threads : CBInnerReturns(t)
    \/ \E t \in Threads : CBInnerRaises(t)
    \/ \E t \in Threads : CBInnerEscapes(t)
    \/ \E t \in Threads : CBInnerReenters(t)

SpecCB == InitCB /\ [][NextCB]_vars

\* every thread that can take a step takes one in the end
SpecCBFair == SpecCB /\ WF_vars(NextCB)

\* one AdvancedRetry decorating a function directly
InitRetry ==
    /\ now = 0
    /\ ExtIdle
    /\ CBIdle
    /\ RMIdle
    /\ \E max_att \in 0..MaxAttempts, excs \in {{"Exception"}, {"ValueError"}},
          jit \in BOOLEAN :
           wrapped = <<Decorated(AdvancedRetry(max_att, excs, jit, TRUE),
                                 "llm", NoBreaker, FALSE)>>
    /\ RFStart
    /\ LRUIdle

NextRetry ==
    \/ \E i \in 1..Len(wrapped) : RFInvoke(i)
    \/ RFAttempt
    \/ RFRawReturns
    \/ \E cls \in RawErrors : RFRawRaises(cls)
    \/ RFWake

SpecRetry == InitRetry /\ [][NextRetry]_vars

\* One callable decorated by resilient_function and its callers.  Every
\* filter here is (Exception,), so one class below Exception stands for all.
RFErrors == {"ValueError", "KeyboardInterrupt"}

InitRF ==
    /\ now = 0
    /\ ExtIdle
    /\ CBIdle
    /\ \E th \in 1..MaxThreshold, tmo \in 1..MaxTimeout :
           rm_config = [failure_threshold |-> th, timeout |-> tmo]
    /\ \E max_att \in 1..MaxAttempts, ecb \in BOOLEAN, nfb \in 0..MaxFallbacks :
           LET d == Decorate(NoBreakers, <<>>, NoFallbacks, <<>>, rm_config,
                             "llm", max_att, ecb, nfb)
           IN /\ circuit_breakers = d.circuit_breakers
              /\ breakers = d.breakers
              /\ fallback_strategies = d.fallback_strategies
              /\ wrapped = d.wrapped
    /\ HCStart
    /\ RFStart
    /\ LRUIdle

NextRF ==
    \/ RFTick
    \/ \E i \in 1..Len(wrapped) : RFInvoke(i)
    \/ RFAttempt
    \/ RFRawReturns
    \/ \E cls \in RFErrors : RFRawRaises(cls)
    \/ RFWake
    \/ RFFallbackReturns
    \/ \E cls \in RFErrors : RFFallbackRaises(cls)
    \/ \E svc \in Services : RFRegister(svc)

SpecRF == InitRF /\ [][NextRF]_vars

\* The registry of the ResilienceManager: functions are decorated with a
\* breaker under service names, and invoked.
InitReg ==
    /\ now = 0
    /\ ExtIdle
    /\ CBIdle
    /\ rm_config = [failure_threshold |-> 1, timeout |-> MaxTimeout]
    /\ RMStart
    /\ RFIdle
    /\ LRUIdle

NextReg ==
    \/ RFTick
    \/ \E svc \in Services : RFWrap(svc, 1, TRUE, 0)
    \/ \E i \in 1..Len(wrapped) : RFInvoke(i)
    \/ RFAttempt
    \/ RFRawReturns
    \/ \E cls \in RFErrors : RFRawRaises(cls)

SpecReg == InitReg /\ [][NextReg]_vars

\* one LRUCache(max_size), its ttl left at the default, used by several threads
InitLRU ==
    /\ now = 0
    /\ ExtIdle
    /\ CBIdle
    /\ RMIdle
    /\ RFIdle
    /\ lru_max_size \in 1..MaxSize
    /\ lru_ttl = NoTTL
    /\ LRUStart

NextLRU ==
    \/ \E t \in Threads, key \in Keys : LRUGet(t, key)
    \/ \E t \in Threads : LRUGetHit(t)
    \/ \E t \in Threads, key \in Keys, value \in Values : LRUPut(t, key, value)
    \/ \E t \in Threads : LRUPutInsert(t)
    \/ \E t \in Threads : LRUClear(t)
    \/ \E t \in Threads : LRUClearTimestamps(t)

SpecLRU == InitLRU /\ [][NextLRU]_vars

\* the health checker of a manager, used on its own
InitHC ==
    /\ now = 0
    /\ ExtIdle
    /\ CBIdle
    /\ RMIdle
    /\ RFIdle
    /\ LRUIdle

HealthCheckOutcomes == {"true", "false", "raises"}

NextHC ==
    \/ HCTick
    \/ \E svc \in Services : HCRegisterService(svc)
    \/ \E svc \in Services, outcome \in HealthCheckOutcomes : HCCheckHealth(svc, outcome)

SpecHC == InitHC /\ [][NextHC]_vars

\* the one caller of the cache with a ttl
TTLCaller == CHOOSE t \in Threads : \A u \in Threads : t <= u

\* the caller's calls, up to MaxTTLOps of them
TTLGet(key) == lru_ops < MaxTTLOps /\ LRUGet(TTLCaller, key)

TTLPut(key, value) == lru_ops < MaxTTLOps /\ LRUPut(TTLCaller, key, value)

TTLClear == lru_ops < MaxTTLOps /\ LRUClear(TTLCaller)

\* one LRUCache(max_size, ttl) whose entries expire, and a clock
InitTTL ==
    /\ now = 0
    /\ ExtIdle
    /\ CBIdle
    /\ RMIdle
    /\ RFIdle
    /\ lru_max_size \in 1..MaxSize
    /\ lru_ttl \in 1..MaxTTL
    /\ LRUStart

NextTTL ==
    \/ LRUTick
    \/ \E key \in Keys : TTLGet(key)
    \/ LRUGetHit(TTLCaller)
    \/ \E key \in Keys, value \in Values : TTLPut(key, value)
    \/ LRUPutInsert(TTLCaller)
    \/ TTLClear
    \/ LRUClearTimestamps(TTLCaller)

SpecTTL == InitTTL /\ [][NextTTL]_vars

\* one MemoryMonitor, the application thread that starts and stops it, and
\* the threads it has started
InitMon ==
    /\ now = 0
    /\ MOIdle(1, [a \in Keys |-> Miss])
    /\ CBIdle
    /\ RMIdle
    /\ RFIdle
    /\ LRUIdle
    /\ ROFIdle(DefaultMaxRetries)
    /\ BOIdle(BaseDelayMs, MaxDelayMs, BaseDelayMs)
    /\ mon_threshold_mb = ThresholdMb
    /\ mon_check_interval \in {JoinTimeout, MaxInterval}
    /\ MonStart
    /\ OptIdle

NextMon ==
    \/ MonTick
    \/ MonStartMonitoring
    \/ MonAddCallback
    \/ MonStopMonitoring
    \/ MonJoinReturns
    \/ MonJoinTimesOut
    \/ \E k \in 1..MaxStarts : MonCheck(k)
    \/ \E k \in 1..MaxStarts, mb \in Samples : MonSample(k, mb)
    \/ \E k \in 1..MaxStarts : MonSampleRaises(k)
    \/ \E k \in 1..MaxStarts : MonCallbackReturns(k)
    \/ \E k \in 1..MaxStarts : MonCallbackRaises(k)
    \/ \E k \in 1..MaxStarts : MonCallbackEscapes(k)
    \/ \E k \in 1..MaxStarts : MonWake(k)

SpecMon == InitMon /\ [][NextMon]_vars

\* the same monitor, started once more after it was stopped
NextRestart ==
    \/ MonTick
    \/ MonStartMonitoring
    \/ MonRestart
    \/ MonAddCallback
    \/ MonStopMonitoring
    \/ MonJoinReturns
    \/ MonJoinTimesOut
    \/ \E k \in 1..MaxStarts + 1 : MonCheck(k)
    \/ \E k \in 1..MaxStarts + 1, mb \in Samples : MonSample(k, mb)
    \/ \E k \in 1..MaxStarts + 1 : MonSampleRaises(k)
    \/ \E k \in 1..MaxStarts + 1 : MonCallbackReturns(k)
    \/ \E k \in 1..MaxStarts + 1 : MonCallbackRaises(k)
    \/ \E k \in 1..MaxStarts + 1 : MonCallbackEscapes(k)
    \/ \E k \in 1..MaxStarts + 1 : MonWake(k)

SpecRestart == InitMon /\ [][NextRestart]_vars

\* one MemoryPool and the threads that use it
InitPool ==
    /\ now = 0
    /\ MOIdle(1, [a \in Keys |-> Miss])
    /\ CBIdle
    /\ RMIdle
    /\ RFIdle
    /\ LRUIdle
    /\ ROFIdle(DefaultMaxRetries)
    /\ BOIdle(BaseDelayMs, MaxDelayMs, BaseDelayMs)
    /\ MonIdle
    /\ pool_size_mb \in 0..MaxPoolSizeMb
    /\ PoolStart
    /\ OptStart

NextPool ==
    \/ \E ty \in Types : PoolGetObject(ty)
    \/ \E ty \in Types : PoolReturnObject(ty)
    \/ PoolClearPool

SpecPool == InitPool /\ [][NextPool]_vars

\* the MemoryOptimizer, the threads that use its caches and its pool, and
\* the thread that runs its cleanup callback
InitOpt ==
    /\ now = 0
    /\ MOIdle(1, [a \in Keys |-> Miss])
    /\ CBIdle
    /\ RMIdle
    /\ RFIdle
    /\ LRUIdle
    /\ ROFIdle(DefaultMaxRetries)
    /\ BOIdle(BaseDelayMs, MaxDelayMs, BaseDelayMs)
    /\ MonIdle
    /\ OptIdle

NextOpt ==
    \/ \E name \in CacheNames : OptCreateCache(name)
    \/ \E c \in 1..MaxCaches : OptCachePut(c)
    \/ \E ty \in Types : OptReturnObject(ty)
    \/ OptAddCallback
    \/ OptCleanup
    \/ OptCallbackReturns
    \/ OptCallbackRaises
    \/ OptRaises
    \/ OptFinish

SpecOpt == InitOpt /\ [][NextOpt]_vars

\* one function decorated by retry_on_failure, called by one thread
InitROF ==
    /\ now = 0
    /\ MOIdle(1, [a \in Keys |-> Miss])
    /\ CBIdle
    /\ RMIdle
    /\ RFIdle
    /\ LRUIdle
    /\ MonIdle
    /\ OptIdle
    /\ BOIdle(BaseDelayMs, MaxDelayMs, BaseDelayMs)
    /\ \E n \in 0..MaxRetries : ROFIdle(n)

NextROF ==
    \/ ROFInvoke
    \/ ROFReturns
    \/ \E cls \in RawErrors : ROFRaises(cls)
    \/ ROFWake

SpecROF == InitROF /\ [][NextROF]_vars

\* the backoff strategies, called for attempt 0, 1, 2, ... with delays in
\* milliseconds
InitBO ==
    /\ now = 0
    /\ MOIdle(1, [a \in Keys |-> Miss])
    /\ CBIdle
    /\ RMIdle
    /\ RFIdle
    /\ LRUIdle
    /\ MonIdle
    /\ OptIdle
    /\ ROFIdle(DefaultMaxRetries)
    /\ \E b \in 1..MaxBaseDelay, i \in 1..MaxBaseDelay, m \in {BaseDelayMs, MaxDelayMs} :
           BOIdle(b * BaseDelayMs, m, i * BaseDelayMs)

SpecBO == InitBO /\ [][BODelay]_vars

\* one function decorated by memory_optimized, called with one argument at
\* a time
InitMO ==
    /\ now = 0
    /\ CBIdle
    /\ RMIdle
    /\ RFIdle
    /\ LRUIdle
    /\ MonIdle
    /\ OptIdle
    /\ ROFIdle(DefaultMaxRetries)
    /\ BOIdle(BaseDelayMs, MaxDelayMs, BaseDelayMs)
    /\ \E n \in 1..MaxSize, f \in [Keys -> {Miss} \cup Values] : MOIdle(n, f)

NextMO ==
    \/ \E arg \in Keys : MOCall(arg)
    \/ MOClear

SpecMO == InitMO /\ [][NextMO]_vars

(***************************************************************************)
(* CircuitBreaker: claims                                                  *)
(***************************************************************************)

\* C1: when a filtered inner failure completes a run of failure_threshold
\* consecutive failures the breaker is Open, and a caller that makes the
\* state check while the breaker is Open and less than `timeout` has passed
\* since the last failure is rejected: its call ends with the breaker-open
\* error and the call counter of the inner function is unchanged.
C1_OpenFailsFast ==
    [][\A t \in Threads :
          /\ (/\ cb_pc[t] = "inner"
              /\ cb_result'[t] = "raised"
              /\ consecutive_failures' >= cb.failure_threshold)
             => cb'.state = "open"
          /\ (/\ cb_pc[t] = "waiting"
              /\ cb_pc'[t] # "waiting"
              /\ cb.state = "open"
              /\ now - cb.last_failure_time < cb.timeout)
             => (/\ cb_result'[t] = "rejected"
                 /\ cb_pc'[t] = "idle"
                 /\ inner_calls' = inner_calls
                 /\ cb'.state = "open")]_vars

C1_Witness ==
    \E t \in Threads :
        /\ cb_result[t] = "rejected"
        /\ cb.state = "open"
        /\ consecutive_failures >= cb.failure_threshold
        /\ inner_calls = cb.failure_threshold

\* C2: a caller that makes the state check while the breaker is Open and at
\* least `timeout` has passed since last_failure_time starts the inner call
\* as the HalfOpen trial; a trial that returns leaves the breaker Closed with
\* failure_count = 0, a trial that raises a filtered exception leaves it
\* Open with last_failure_time set to the time of that failure.
C2_HalfOpenTrial ==
    [][\A t \in Threads :
          /\ (/\ cb_pc[t] = "waiting"
              /\ cb_pc'[t] # "waiting"
              /\ cb.state = "open"
              /\ now - cb.last_failure_time >= cb.timeout)
             => (/\ cb_pc'[t] = "inner"
                 /\ cb_trial'[t]
                 /\ cb'.state = "half_open"
                 /\ inner_calls' = inner_calls + 1)
          /\ (cb_pc[t] = "inner" /\ cb_trial[t] /\ cb_result'[t] = "returned")
             => (cb'.state = "closed" /\ cb'.failure_count = 0)
          /\ (cb_pc[t] = "inner" /\ cb_trial[t] /\ cb_result'[t] = "raised")
             => (cb'.state = "open" /\ cb'.last_failure_time = now)]_vars

C2_Witness ==
    \E t, u \in Threads :
        /\ cb_trial[t] /\ cb_result[t] = "raised"
        /\ cb.state = "open" /\ cb.last_failure_time = now
        /\ cb_trial[u] /\ cb_result[u] = "returned"

\* C3: in every reachable state, state = Open implies that
\* last_failure_time is set and failure_count >= failure_threshold.
C3_OpenInvariant ==
    cb.state = "open" =>
        (cb.last_failure_time # NoTime /\ cb.failure_count >= cb.failure_threshold)

C3_Witness ==
    /\ cb.state = "open"
    /\ cb.failure_count > cb.failure_threshold
    /\ \E t \in Threads : cb_result[t] = "rejected"
    /\ \E t \in Threads : cb_result[t] = "escaped"

(***************************************************************************)
(* resilient_function: claims                                              *)
(***************************************************************************)

\* the breaker of the callable being invoked rejects a check made now
CurrentBreakerRejects ==
    /\ rf_fn # 0
    /\ wrapped[rf_fn].breaker # NoBreaker
    /\ breakers[wrapped[rf_fn].breaker].state = "open"
    /\ now - breakers[wrapped[rf_fn].breaker].last_failure_time
           < breakers[wrapped[rf_fn].breaker].timeout

\* C4 as claimed: the breaker is the outermost layer, so an invocation
\* that meets an Open breaker whose timeout has not elapsed ends at that one
\* state check: no retry attempt, no backoff sleep.
C4_BreakerOutermost ==
    (last_exception = CircuitOpenException /\ raw_calls = 0) =>
        (checks = 1 /\ sleeps = 0 /\ rf_pc \notin {"sleep", "attempt", "raw"})

\* C4 amended: the retry layer is outside the breaker.  Every pass of the
\* retry loop makes its own state check; a check rejected while the breaker
\* is Open and its timeout has not elapsed does not call the function, and
\* the retry layer treats the rejection as a failure of that attempt: before
\* the last attempt it sleeps and tries again, on the last attempt the
\* rejection leaves the retry layer.
C4_RetryOutsideBreaker ==
    [][(rf_pc = "attempt" /\ rf_pc' # "attempt" /\ CurrentBreakerRejects) =>
          /\ checks' = checks + 1
          /\ raw_calls' = raw_calls
          /\ last_exception' = CircuitOpenException
          /\ IF attempt < wrapped[rf_fn].retry.max_attempts - 1
             THEN rf_pc' = "sleep" /\ sleeps' = sleeps + 1
             ELSE rf_pc' \in {"done", "fallback"} /\ sleeps' = sleeps]_vars

C4_Witness ==
    /\ rf_pc = "sleep"
    /\ last_exception = CircuitOpenException
    /\ CurrentBreakerRejects
    /\ raw_calls = 0
    /\ checks = 1

\* C5 as claimed: callables decorated under one service name share one
\* breaker, the one the registry has held since the first decoration, so
\* the status snapshot of the service is the state of the breaker that
\* guards each of them.
C5_OneBreakerPerService ==
    \A i, j \in 1..Len(wrapped) :
        (/\ i <= j
         /\ wrapped[i].service = wrapped[j].service
         /\ wrapped[i].breaker # NoBreaker
         /\ wrapped[j].breaker # NoBreaker)
        => /\ wrapped[j].breaker = wrapped[i].breaker
           /\ circuit_breakers[wrapped[i].service] = wrapped[i].breaker
           /\ BreakerStatus[wrapped[i].service] = breakers[wrapped[i].breaker].state

\* C6 as claimed: a completed invocation has recorded its outcome for the
\* service: Healthy with failure count 0 after a return, a failure counted
\* after a raise.
C6_OutcomeRecorded ==
    (rf_pc = "done" /\ rf_fn # 0) =>
        /\ result.kind = "return" =>
               (/\ service_status[wrapped[rf_fn].service] = "healthy"
                /\ failure_counts[wrapped[rf_fn].service] = 0)
        /\ result.kind = "raise" =>
               (/\ service_status[wrapped[rf_fn].service] \notin {"absent", "healthy"}
                /\ failure_counts[wrapped[rf_fn].service] >= 1)

\* C6 amended: no step of an invocation of a decorated callable changes the
\* ServiceHealthChecker: service_status, failure_counts and last_check_time
\* change only through the health checker's own methods.
C6_InvocationLeavesHealthAlone ==
    [][(\/ rf_pc' # rf_pc \/ rf_fn' # rf_fn \/ attempt' # attempt
        \/ fb_index' # fb_index \/ result' # result \/ raw_calls' # raw_calls
        \/ invocations' # invocations)
       => UNCHANGED <<service_status, failure_counts, last_check_time>>]_vars

C6_Witness ==
    /\ rf_pc = "done"
    /\ result.kind = "raise"
    /\ raw_calls >= 1
    /\ service_status[wrapped[rf_fn].service] = "healthy"
    /\ failure_counts[wrapped[rf_fn].service] = 0
    /\ last_check_time[wrapped[rf_fn].service] < now

(***************************************************************************)
(* AdvancedRetry: claims                                                   *)
(***************************************************************************)

\* the invocation is over and every attempt of it failed with a retryable
\* exception
AllAttemptsFailed ==
    /\ rf_pc = "done"
    /\ result.kind = "raise"
    /\ raw_calls >= 1
    /\ last_exception.origin = raw_calls

C8_SleepsBetweenAttempts ==
    /\ (rf_pc = "done" /\ result.kind = "return") =>
           (/\ raw_calls = attempt + 1
            /\ sleeps = attempt
            /\ attempt < wrapped[rf_fn].retry.max_attempts)
    /\ AllAttemptsFailed =>
           (/\ raw_calls = wrapped[rf_fn].retry.max_attempts
            /\ sleeps = wrapped[rf_fn].retry.max_attempts - 1)
    /\ rf_pc = "sleep" =>
           (/\ attempt + 1 < wrapped[rf_fn].retry.max_attempts
            /\ sleeps = attempt + 1
            /\ raw_calls = attempt + 1)
    /\ rf_pc \in {"attempt", "raw"} => sleeps = attempt

C8_Witness ==
    /\ rf_pc = "done"
    /\ result.kind = "return"
    /\ attempt = MaxAttempts - 1
    /\ sleeps = MaxAttempts - 1
    /\ raw_calls = MaxAttempts

(***************************************************************************)
(* LRUCache: claims                                                        *)
(***************************************************************************)
LRUAllIdle == \A t \in Threads : lru_pc[t].at = "idle"

\* C9: a put of a new key into a cache that holds max_size entries removes
\* exactly the entry whose last put or get hit is the oldest and no other,
\* and a get hit leaves its entry in the most recently used position.
C9_EvictsLeastRecentlyUsed ==
    [][\A t \in Threads :
          /\ (/\ lru_pc[t].at = "idle"
              /\ lru_pc'[t].at = "put"
              /\ lru_pc'[t].key \notin CacheKeys(lru_cache)
              /\ Len(lru_cache) = lru_max_size)
                 => CacheKeys(lru_cache') =
                        CacheKeys(lru_cache) \ {LeastRecentlyUsed(lru_cache, lru_used)}
          /\ (lru_pc[t].at = "get" /\ lru_pc'[t].at = "idle")
                 => /\ lru_cache' # <<>>
                    /\ lru_cache'[Len(lru_cache')].k = lru_pc[t].key
                    /\ CacheKeys(lru_cache') = CacheKeys(lru_cache) \cup {lru_pc[t].key}
      ]_vars

\* C9's case: put, put, get hit of the first key, put of a third key into
\* a cache of two: the key that was hit is still stored
C9_Witness ==
    /\ LRUAllIdle
    /\ lru_max_size = 2
    /\ lru_ops = 4
    /\ lru_hits = 1
    /\ lru_last.was_full
    /\ ~lru_last.was_present
    /\ lru_last.removed = {lru_last.lru_key}
    /\ Len(lru_used) = 3
    /\ lru_used[3] = lru_last.key
    /\ lru_used[2] \in CacheKeys(lru_cache)
    /\ lru_used[1] \notin CacheKeys(lru_cache)

\* C10: whatever the interleaving of get, put and clear calls, the cache
\* holds at most max_size entries, and a put of a key the cache already
\* holds removes no other entry.
C10_SizeBounded ==
    /\ Len(lru_cache) <= lru_max_size
    /\ lru_last.was_present => lru_last.removed = {}

\* C10's case: a full cache after the put of a key it held, with a get hit
\* behind it
C10_Witness ==
    /\ LRUAllIdle
    /\ lru_max_size = 2
    /\ Len(lru_cache) = lru_max_size
    /\ lru_last.was_present
    /\ lru_last.was_full
    /\ lru_last.removed = {}
    /\ lru_hits >= 1
    /\ lru_cache[Len(lru_cache)].k = lru_last.key

\* the time since the put that stored key
Age(key) == now - lru_timestamps[key]

\* C11: with a ttl, a get of a stored key whose age exceeds ttl returns a
\* miss and removes the entry, and a get of a stored key whose age does not
\* exceed ttl goes on to a hit; a put completes with the age of its key at
\* zero, also when the key was stored before; a get hit leaves every age as
\* it was.
C11_ExpiryByAge ==
    [][\A t \in Threads :
          /\ \A key \in Keys :
                (LRUGet(t, key) /\ key \in CacheKeys(lru_cache)) =>
                    IF Age(key) > lru_ttl
                    THEN /\ lru_ret'[t] = Miss
                         /\ lru_misses' = lru_misses + 1
                         /\ lru_hits' = lru_hits
                         /\ key \notin CacheKeys(lru_cache')
                         /\ lru_timestamps'[key] = NoTime
                         /\ lru_pc'[t].at = "idle"
                    ELSE /\ lru_pc'[t].at = "get"
                         /\ lru_misses' = lru_misses
                         /\ lru_timestamps' = lru_timestamps
          /\ (lru_pc[t].at = "put" /\ lru_pc'[t].at = "idle") =>
                /\ lru_pc[t].key \in CacheKeys(lru_cache')
                /\ lru_timestamps'[lru_pc[t].key] = now'
                /\ \A key \in Keys \ {lru_pc[t].key} :
                       lru_timestamps'[key] = lru_timestamps[key]
          /\ (lru_pc[t].at = "get" /\ lru_pc'[t].at = "idle") =>
                /\ lru_ret'[t] = lru_pc[t].value
                /\ lru_hits' = lru_hits + 1
                /\ lru_timestamps' = lru_timestamps
      ]_vars

\* C11's case: one put and one get, the get after more than ttl: the get
\* was a miss and the cache is empty again
C11_Witness ==
    /\ LRUAllIdle
    /\ lru_ttl # NoTTL
    /\ lru_ops = 2
    /\ lru_misses = 1
    /\ lru_hits = 0
    /\ Len(lru_used) = 1
    /\ lru_cache = <<>>
    /\ lru_timestamps[lru_used[1]] = NoTime
    /\ now > lru_ttl

(***************************************************************************)
(* FallbackManager and the layers of resilient_function: claims           *)
(***************************************************************************)

\* the callable being invoked goes through execute_with_fallback
WithFallback == rf_fn # 0 /\ wrapped[rf_fn].use_fallback

\* the strategies registered for the service of the callable being invoked
Registered == fallback_strategies[wrapped[rf_fn].service].n

\* the primary of execute_with_fallback, the retry wrapper, raised an Exception
PrimaryFailed ==
    /\ last_exception # NoException
    /\ IsInstance(last_exception.class, {"Exception"})
    /\ rf_pc \in {"fallback", "done"}
    /\ ~(result.kind = "return" /\ result.by = 0)
    /\ ~(result.kind = "raise" /\ result.exc.origin >= 1)

\* C12: the primary is called first; a primary that returns leaves every
\* strategy uncalled; after a primary that failed the registered strategies
\* are called one at a time in registration order, the result is what the
\* first strategy that succeeds returns, and no strategy after it is called.
C12_FallbackOrder ==
    /\ \A i \in 1..Len(fb_tried) : fb_tried[i] = i
    /\ fb_tried # <<>> =>
           (WithFallback /\ PrimaryFailed /\ Len(fb_tried) <= Registered)
    /\ rf_pc = "fallback" => fb_index = Len(fb_tried)
    /\ (WithFallback /\ PrimaryFailed /\ Registered >= 1) => fb_tried # <<>>
    /\ (rf_pc = "done" /\ result.kind = "return") =>
           /\ Len(fb_tried) = result.by
           /\ result.by = 0 => raw_calls >= 1

\* C12's case: the primary and the first strategy failed, the second
\* strategy returned
C12_Witness ==
    /\ rf_pc = "done"
    /\ WithFallback
    /\ PrimaryFailed
    /\ Registered = 2
    /\ result = Returned(2)
    /\ fb_tried = <<1, 2>>

C14_FallbackAbsorbs ==
    (rf_pc = "done" /\ rf_fn # 0 /\ last_exception # NoException
        /\ ~(result.kind = "return" /\ result.by = 0)
        /\ ~(result.kind = "raise" /\ result.exc.origin >= 1
                /\ ~IsInstance(result.exc.class, {"Exception"})))
    => IF wrapped[rf_fn].use_fallback
       THEN /\ result # Raised(last_exception)
            /\ \/ result.kind = "return" /\ result.by >= 1
               \/ result = Raised(AllFailedException)
               \/ /\ result.kind = "raise"
                  /\ result.exc.origin = 0
                  /\ ~IsInstance(result.exc.class, {"Exception"})
       ELSE result = Raised(last_exception)

\* C14's case: the breaker rejected the last attempt and a strategy
\* returned
C14_Witness ==
    /\ rf_pc = "done"
    /\ WithFallback
    /\ last_exception = CircuitOpenException
    /\ result = Returned(1)

\* C15: a fallback strategy is called only once the retry layer is through:
\* all max_attempts attempts have been made and the last one failed with an
\* error the retry layer catches, with a sleep before each attempt but the
\* first; and from the first strategy on, no attempt of the primary is
\* made in that invocation.
C15_FallbackAfterRetries ==
    fb_tried # <<>> =>
        /\ rf_pc \in {"fallback", "done"}
        /\ attempt = wrapped[rf_fn].retry.max_attempts - 1
        /\ sleeps = wrapped[rf_fn].retry.max_attempts - 1
        /\ raw_calls <= wrapped[rf_fn].retry.max_attempts
        /\ IsInstance(last_exception.class, wrapped[rf_fn].retry.exceptions)

\* C15's case: a strategy is running after MaxAttempts failed calls
C15_Witness ==
    /\ rf_pc = "fallback"
    /\ wrapped[rf_fn].retry.max_attempts = MaxAttempts
    /\ raw_calls = MaxAttempts
    /\ sleeps = MaxAttempts - 1
    /\ fb_tried = <<1>>

(***************************************************************************)
(* ServiceHealthChecker: claims                                            *)
(***************************************************************************)

\* C16: a service the checker knows is Healthy with failure count 0 when
\* its last check succeeded or it has just been registered, and after n
\* failed checks in a row since then its failure count is n and its status
\* is Degraded for n in 1..2, Failing for n in 3..4, Unavailable from 5 on.
C16_StatusByFailures ==
    \A svc \in Services :
        failure_counts[svc] # NoCount =>
            /\ failure_counts[svc] = hc_run[svc]
            /\ service_status[svc] =
                   IF hc_run[svc] = 0 THEN "healthy"
                   ELSE IF hc_run[svc] \in 1..2 THEN "degraded"
                   ELSE IF hc_run[svc] \in 3..4 THEN "failing"
                   ELSE "unavailable"

\* C16's case: the fifth failed check in a row has made a service Unavailable
C16_Witness ==
    \E svc \in Services :
        /\ hc_run[svc] = 5
        /\ failure_counts[svc] = 5
        /\ service_status[svc] = "unavailable"
        /\ hc_result = "unavailable"

\* C17 as claimed: a check_service_health call on a registered service
\* leaves last_check_time at the time of the call, whether the health check
\* function returned true, returned false or raised.
C17_LastCheckTimeSet ==
    [][\A svc \in Services, outcome \in HealthCheckOutcomes :
          (failure_counts[svc] # NoCount /\ HCCheckHealth(svc, outcome))
              => last_check_time'[svc] = now]_vars

(***************************************************************************)
(* CircuitBreaker under concurrent callers: claims                         *)
(***************************************************************************)

\* C18: with several threads calling one breaker, failure_count is never
\* negative and is the number of filtered inner failures completed since
\* the last inner call that returned, and the state is one of the three
\* and agrees with the count: Closed below failure_threshold, Open and
\* HalfOpen from failure_threshold on.
C18_NoFailureLost ==
    /\ cb.failure_count >= 0
    /\ cb.failure_count = failures_since_success
    /\ cb.state \in {"closed", "open", "half_open"}
    /\ cb.state = "closed" => cb.failure_count < cb.failure_threshold
    /\ cb.state \in {"open", "half_open"} => cb.failure_count >= cb.failure_threshold

\* C18's case: every thread has had an inner call fail, and a failure was
\* counted after the breaker had opened
C18_Witness ==
    /\ \A t \in Threads : cb_result[t] = "raised"
    /\ cb.state = "open"
    /\ cb.failure_count > cb.failure_threshold
    /\ cb.failure_count = inner_calls

\* C19 as claimed: no caller holds the breaker's lock while its inner call
\* is under way, so another caller can make the state check meanwhile.
C19_LockFreeDuringInner ==
    \A t \in Threads : cb_pc[t] = "inner" => cb_lock # t

\* C20 as claimed: once a call has gone through as the HalfOpen trial no
\* other inner call starts until the breaker has left HalfOpen for Closed
\* or Open.
C20_OneTrial ==
    [][inner_calls' = inner_calls + 1 => cb.state # "half_open"]_vars

\* ---------------------------------------------------------------------
\* MemoryMonitor (C21 - C24), under SpecMon
\* ---------------------------------------------------------------------

MonThreads == 1..Len(mon_threads)

\* stop_monitoring has returned and start_monitoring was not called since
MonStopped == mon_app = "idle" /\ mon_stops > 0 /\ ~mon_monitoring

\* C21 as claimed: once stop_monitoring has returned, the loop of every
\* monitor thread has exited, so that none is in a callback, and none is
\* asleep or about to sample and call the callbacks later.
C21_StoppedMeansExited ==
    MonStopped => \A k \in MonThreads : mon_threads[k].pc = "dead"

\* C22: stop_monitoring always returns, before start_monitoring and after
\* an earlier stop as well: it sets monitoring to False when it is called,
\* returns at once when there is no monitor thread, and otherwise waits for
\* the thread no longer than the join's timeout; it returns in the same way
\* with monitoring False whether the thread has ended or not.
C22_StopIdempotentBounded ==
    [][/\ mon_stops' = mon_stops + 1 =>
            /\ ~mon_monitoring'
            /\ mon_thread = NoMonitor =>
                   mon_app' = "idle" /\ mon_stop_result' = "returned"
            /\ mon_thread # NoMonitor =>
                   mon_app' = "joining" /\ mon_deadline' = now + JoinTimeout
       /\ mon_app = "joining" =>
            /\ now' <= mon_deadline
            /\ ~mon_monitoring'
            /\ mon_app' = "idle" =>
                   /\ mon_stop_result' \in {"joined", "timed_out"}
                   /\ mon_stop_result' = "joined" <=>
                          mon_threads[mon_thread].pc = "dead"]_vars

\* C22's case: stop_monitoring was called again after an earlier stop, and
\* the join has timed out on a thread that is still asleep
C22_Witness ==
    /\ mon_stops = MaxStops
    /\ mon_app = "idle"
    /\ mon_stop_result = "timed_out"
    /\ ~mon_monitoring
    /\ mon_threads[mon_thread].pc = "sleep"

\* C23: on a pass of the loop whose sample was taken, the first callback is
\* called exactly when there is one and the sample is strictly over
\* threshold_mb; after a callback the next one in registration order is
\* called, and the thread goes to sleep only after the last registered one,
\* every callback having been called once, in order.
C23_CallbacksIffOverThreshold ==
    [][\A k \in MonThreads :
          LET th == mon_threads[k]
              nx == mon_threads'[k]
          IN  /\ (th.pc = "sample" /\ nx.pc # "sample" /\ nx.sample # NoSample) =>
                   /\ nx.pc = "callback" <=>
                          (nx.sample > mon_threshold_mb /\ mon_callbacks > 0)
                   /\ nx.pc = "callback" => nx.called = <<1>>
                   /\ nx.pc # "callback" => nx.pc = "sleep" /\ nx.called = <<>>
              /\ (th.pc = "callback" /\ nx.pc = "callback" /\ nx # th) =>
                   /\ th.callback < mon_callbacks
                   /\ nx.called = Append(th.called, Len(th.called) + 1)
                   /\ nx.sample = th.sample
              /\ (th.pc = "callback" /\ nx.pc = "sleep") =>
                   /\ nx.sample > mon_threshold_mb
                   /\ nx.called = [i \in 1..mon_callbacks |-> i]]_vars

\* C23's case: a sample over the threshold, every registered callback
\* called in turn, and the thread asleep until the next tick
C23_Witness ==
    \E k \in MonThreads :
        /\ mon_threads[k].pc = "sleep"
        /\ mon_threads[k].sample = ThresholdMb + 1
        /\ mon_callbacks = MaxCallbacks
        /\ mon_threads[k].called = [i \in 1..MaxCallbacks |-> i]

\* C24: after a callback has raised an Exception the callback registered
\* after it is called, or the thread goes to sleep if it was the last one;
\* after a sampling error the thread goes to sleep; a thread whose sleep is
\* over goes on to its next pass, and samples again while monitoring is
\* true.  The caller of stop_monitoring never gets an error.
C24_RaisingCallbackIsolated ==
    [][/\ \A k \in MonThreads :
             LET th == mon_threads[k]
                 nx == mon_threads'[k]
             IN  /\ (th.pc = "callback" /\ nx.failed # th.failed) =>
                      /\ nx.failed = th.failed \cup {th.callback}
                      /\ IF th.callback < mon_callbacks
                         THEN nx.pc = "callback" /\ nx.callback = th.callback + 1
                         ELSE nx.pc = "sleep"
                 /\ (th.pc = "sample" /\ nx.sample = NoSample /\ nx # th) =>
                      nx.pc = "sleep"
                 /\ (th.pc = "sleep" /\ nx # th) => nx.pc = "check"
                 /\ (th.pc = "check" /\ nx # th /\ mon_monitoring) => nx.pc = "sample"
       /\ mon_stop_result' \in {"none", "returned", "joined", "timed_out"}]_vars

\* C24's case: the first callback raised, the one after it was called all
\* the same, and the thread is asleep until its next tick
C24_Witness ==
    \E k \in MonThreads :
        /\ mon_threads[k].pc = "sleep"
        /\ 1 \in mon_threads[k].failed
        /\ mon_threads[k].called = <<1, 2>>
        /\ mon_monitoring

\* ---------------------------------------------------------------------
\* MemoryOptimizer and MemoryPool (C25, C26), under SpecOpt and SpecPool
\* ---------------------------------------------------------------------

\* C25: when _default_memory_optimization has returned and nobody else has
\* written to the caches, the pool or the callback list since it started,
\* every cache of the registry is empty, the pool has no free object, and
\* every custom callback was called once, in order, whether or not one
\* before it raised.
C25_CleanupClearsAll ==
    (opt_pc = "done" /\ ~opt_written) =>
        /\ \A n \in DOMAIN opt_caches : opt_sizes[opt_caches[n]] = 0
        /\ \A ty \in DOMAIN free_objects : free_objects[ty] = 0
        /\ opt_called = [i \in 1..opt_callbacks |-> i]

\* C25's case: the cleanup has returned, with two caches in the registry,
\* the first custom callback having raised and the second called after it
C25_Witness ==
    /\ opt_pc = "done"
    /\ ~opt_written
    /\ Cardinality(DOMAIN opt_caches) = 2
    /\ 1 \in opt_failed
    /\ opt_called = <<1, 2>>

\* C26: the free objects never number more than pool_size_mb * 10; a
\* return_object at the cap drops the object and leaves the number of free
\* objects of every type as it was, and below the cap it adds one to its
\* type; get_object calls the factory only when its type has no free
\* object, and takes a free one otherwise.
C26_PoolCap ==
    /\ [](current_size(free_objects, DOMAIN free_objects) <= pool_size_mb * 10)
    /\ [][LET FreeOf(free, ty) == IF ty \in DOMAIN free THEN free[ty] ELSE 0
              total == current_size(free_objects, DOMAIN free_objects)
              ty == pool_last'.type
              others(tys) == \A t \in tys :
                                 FreeOf(free_objects', t) = FreeOf(free_objects, t)
          IN  /\ pool_last'.op \in {"kept", "dropped"} =>
                   IF total >= pool_size_mb * 10
                   THEN pool_last'.op = "dropped" /\ others(Types)
                   ELSE /\ pool_last'.op = "kept"
                        /\ FreeOf(free_objects', ty) = FreeOf(free_objects, ty) + 1
                        /\ others(Types \ {ty})
              /\ pool_last'.op = "created" =>
                   FreeOf(free_objects, ty) = 0 /\ others(Types)
              /\ pool_last'.op = "reused" =>
                   /\ FreeOf(free_objects, ty) > 0
                   /\ FreeOf(free_objects', ty) = FreeOf(free_objects, ty) - 1
                   /\ others(Types \ {ty})]_vars

\* C26's case: an object was returned and dropped with the pool at its cap,
\* which holds objects of every type
C26_Witness ==
    /\ pool_last.op = "dropped"
    /\ pool_size_mb > 0
    /\ current_size(free_objects, DOMAIN free_objects) = pool_size_mb * 10
    /\ \A ty \in Types : ty \in DOMAIN free_objects /\ free_objects[ty] > 0

\* ---------------------------------------------------------------------
\* retry_on_failure and the backoff strategies (C27, C28), under SpecROF
\* and SpecBO
\* ---------------------------------------------------------------------

\* C27: the decorated function is never called more than max_retries + 1
\* times in one invocation of the wrapper; a wrapper that has returned
\* returns what the last call returned, every call before it having raised;
\* a wrapper that has raised an Exception has made max_retries + 1 calls,
\* all of which raised, and raises the error of the last of them as it is.
C27_AtMostNPlusOneCalls ==
    /\ rof_calls <= rof_max_retries + 1
    /\ (rof_pc = "idle" /\ rof_result.kind = "return") =>
           /\ rof_result = Returned(rof_calls)
           /\ rof_calls >= 1
           /\ Len(rof_errors) = rof_calls - 1
    /\ (rof_pc = "idle" /\ rof_result.kind = "raise"
            /\ rof_result.exc.class \in ExceptionClasses) =>
           /\ rof_calls = rof_max_retries + 1
           /\ Len(rof_errors) = rof_max_retries + 1
           /\ rof_result.exc = [class |-> rof_errors[rof_calls], msg |-> "raw",
                                origin |-> rof_calls]

\* C27's case: the function failed twice and then returned, in three calls
C27_Witness ==
    /\ rof_pc = "idle"
    /\ Len(rof_errors) = 2
    /\ rof_result.kind = "return"
    /\ rof_result.by = 3
    /\ rof_calls = 3

\* C28: called with base_delay 1 s and max_delay 60 s, exponential_backoff
\* returns 1, 2, 4, 8, 16, 32, 60, 60, ... seconds for attempt 0, 1, 2, ...;
\* whatever the base and the maximum it never returns less than for the
\* attempt before nor more than max_delay; linear_backoff with base 1 s and
\* increment 1 s returns 1 + attempt seconds.
C28_BackoffValues ==
    bo_attempt > 0 =>
        LET att == bo_attempt - 1
            seconds == <<1, 2, 4, 8, 16, 32, 60, 60, 60, 60, 60, 60>>
        IN  /\ (bo_base_delay = 1000 /\ bo_max_delay = 60000) =>
                   bo_exponential = 1000 * seconds[att + 1]
            /\ bo_exponential <= bo_max_delay
            /\ bo_previous <= bo_exponential
            /\ (bo_base_delay = 1000 /\ bo_increment = 1000) =>
                   bo_linear = 1000 * (1 + att)

\* C28's case: attempt 6 with the default delays, the first one clipped
C28_Witness ==
    /\ bo_attempt = 7
    /\ bo_base_delay = 1000
    /\ bo_max_delay = 60000
    /\ bo_increment = 1000
    /\ bo_exponential = 60000
    /\ bo_previous = 32000
    /\ bo_linear = 7000

\* ---------------------------------------------------------------------
\* CircuitBreaker and AdvancedRetry (C29, C30), under SpecCB and SpecRetry
\* ---------------------------------------------------------------------

\* C29: a failed HalfOpen trial adds one to failure_count and reopens the
\* breaker; the count only ever goes down by a success that closes the
\* breaker and sets it to 0, and the breaker opens from Closed with the
\* count at failure_threshold: after k failed trials it is
\* failure_threshold + k.
C29_TrialFailuresAccumulate ==
    [][/\ (cb.state = "half_open" /\ cb'.state = "open") =>
              /\ cb'.failure_count = cb.failure_count + 1
              /\ cb'.failure_count > cb.failure_threshold
       /\ (cb.state = "closed" /\ cb'.state = "open") =>
              cb'.failure_count = cb.failure_threshold
       /\ cb'.failure_count < cb.failure_count =>
              cb'.failure_count = 0 /\ cb'.state = "closed"]_vars

\* C29's case: two failed trials after the breaker opened
C29_Witness ==
    /\ cb.state = "open"
    /\ cb.failure_count = cb.failure_threshold + 2
    /\ \E t \in Threads : cb_result[t] = "raised"

\* C30 as claimed: whatever max_attempts is, an invocation of the retry
\* wrapper has called the inner function at least once and ends with its
\* return or with the error it raised, never with the `raise last_exception`
\* after the loop.
C30_LoopAlwaysDecides ==
    rf_pc = "done" =>
        /\ raw_calls >= 1
        /\ result.kind = "return" \/ result.exc.msg = "raw"

\* ---------------------------------------------------------------------
\* CircuitBreaker (C31 - C33), under SpecCB
\* ---------------------------------------------------------------------

\* C31 as claimed: with no call on the breaker under way its state is
\* Closed or Open: whichever way a HalfOpen trial ends, it leaves the
\* breaker Closed or Open.
C31_NoHalfOpenAtRest ==
    (\A t \in Threads : cb_pc[t] = "idle") => cb.state # "half_open"

\* C32: a call rejected by the Open breaker leaves failure_count,
\* last_failure_time and state, and so the breaker as a whole, as they were
\* before the call.
C32_RejectionChangesNothing ==
    [][\A t \in Threads :
          (cb_pc[t] = "waiting" /\ cb_result'[t] = "rejected") =>
              /\ cb.state = "open"
              /\ cb'.failure_count = cb.failure_count
              /\ cb'.last_failure_time = cb.last_failure_time
              /\ cb'.state = cb.state
              /\ inner_calls' = inner_calls]_vars

\* C32's case: a call was rejected some time after the failure that opened
\* the breaker
C32_Witness ==
    \E t \in Threads :
        /\ cb_result[t] = "rejected"
        /\ cb.state = "open"
        /\ cb.last_failure_time < now

\* C33 as claimed: a wrapper called from inside the inner call of the same
\* breaker, on the same thread, does not wait for the breaker's lock for
\* ever.
C33_NestedCallTerminates ==
    \A t \in Threads : (cb_pc[t] = "reenter") ~> (cb_pc[t] # "reenter")

\* ---------------------------------------------------------------------
\* MemoryMonitor restarted (C34), under SpecRestart
\* ---------------------------------------------------------------------

\* C34 as claimed: whatever start_monitoring and stop_monitoring calls were
\* made, no two threads are in the body of the monitor loop, past its
\* `while self.monitoring` test, at the same time.
C34_OneLoopTicks ==
    Cardinality({k \in MonThreads : mon_threads[k].pc \in {"sample", "callback"}}) <= 1

\* ---------------------------------------------------------------------
\* ServiceHealthChecker and AdvancedRetry (C35, C36), under SpecHC and
\* SpecRetry
\* ---------------------------------------------------------------------

\* C35 as claimed: every call of check_service_health returns one of the
\* four statuses, whether or not the service was registered and whatever
\* the health check function did.
C35_AlwaysReturnsStatus ==
    hc_result \in {"none", "healthy", "degraded", "failing", "unavailable"}

\* the invocation ended on an error of the inner call that is not an
\* instance of the retryable classes
NonRetryableRaised ==
    /\ rf_pc = "done"
    /\ result.kind = "raise"
    /\ result.exc.msg = "raw"
    /\ LET filter == wrapped[rf_fn].retry.exceptions IN
           /\ result.exc.class \notin filter
           /\ ~("Exception" \in filter /\ result.exc.class \in ExceptionClasses)

\* C36 as claimed: an invocation that ends on a non-retryable error has
\* called the inner function exactly once, has not slept and has called
\* neither on_retry nor on_failure.
C36_OneInvocationOnly ==
    NonRetryableRaised =>
        /\ raw_calls = 1
        /\ sleeps = 0
        /\ on_retry_calls = 0
        /\ on_failure_calls = 0

\* C36 amended: a non-retryable error leaves the wrapper from the attempt
\* that raised it: that call is the last one, no sleep and no on_retry
\* follow it and on_failure is never called; the attempts before it, which
\* failed with retryable errors, each had their on_retry call and sleep.
C36_PropagatesAtOnce ==
    NonRetryableRaised =>
        /\ result.exc.origin = raw_calls
        /\ raw_calls = attempt + 1
        /\ sleeps = attempt
        /\ on_retry_calls = attempt
        /\ on_failure_calls = 0

\* C36's case: a retryable failure, a sleep, and then a non-retryable error
\* on the last attempt
C36_Witness ==
    /\ NonRetryableRaised
    /\ raw_calls = MaxAttempts
    /\ sleeps = MaxAttempts - 1
    /\ wrapped[rf_fn].retry.max_attempts = MaxAttempts

(***************************************************************************)
(* memory_optimized: claims                                                *)
(***************************************************************************)
\* C37: a call of the decorated function whose argument has an entry in the
\* cache (stored by an earlier call, neither evicted nor cleared since)
\* returns the entry's value without executing the function, whatever the
\* value is, None included.
C37_StoredIsNotExecuted ==
    mo_last.stored => ~mo_last.executed

(***************************************************************************)
(* MemoryOptimizer.create_cache: claims                                    *)
(***************************************************************************)
\* C38: after the default cleanup has run to its end with nothing written
\* meanwhile, every cache create_cache has ever returned is empty, the
\* caches whose name a later create_cache call took included.
C38_EveryCreatedCacheEmptied ==
    (opt_pc = "done" /\ ~opt_written) =>
        \A c \in 1..Len(opt_sizes) : opt_sizes[c] = 0

(***************************************************************************)
(* LRUCache counters: claims                                               *)
(***************************************************************************)
\* C39: hits + misses counts the completed get calls: each step in which a
\* get returns adds one to exactly one of the two counters and no other
\* step (of put, of clear, of the clock) changes them; the get that returns
\* the stored value of a key that was stored and unexpired when it looked
\* adds to hits, the get that returns None adds to misses, and a get of a
\* stored unexpired key does not return None; the size get_stats reports
\* when no call is under way is the number of stored entries.
C39_CountersFollowGets ==
    /\ [](lru_lock = NoThread =>
             get_stats(lru_cache, lru_hits, lru_misses).size
                 = Cardinality(CacheKeys(lru_cache)))
    /\ [][LET found(t) == lru_pc[t].at = "idle" /\ lru_pc'[t].at = "get"
              hit(t) == lru_pc[t].at = "get" /\ lru_pc'[t].at = "idle"
              miss == lru_ops' = lru_ops + 1 /\ lru_pc' = lru_pc
          IN  /\ lru_hits' = lru_hits + (IF \E t \in Threads : hit(t) THEN 1 ELSE 0)
              /\ lru_misses' = lru_misses + (IF miss THEN 1 ELSE 0)
              /\ \A t \in Threads : found(t) =>
                     /\ lru_pc'[t].key \in CacheKeys(lru_cache)
                     /\ ~Expired(lru_ttl, lru_timestamps, lru_pc'[t].key, now)
                     /\ lru_pc'[t].value = ValueOf(lru_cache, lru_pc'[t].key)
              /\ \A t \in Threads : hit(t) =>
                     /\ lru_pc[t].value # Miss
                     /\ lru_ret'[t] = lru_pc[t].value
              /\ miss =>
                     /\ \E t \in Threads : lru_ret'[t] = Miss
                     /\ \/ lru_cache' = lru_cache
                        \/ \E key \in CacheKeys(lru_cache) :
                               /\ Expired(lru_ttl, lru_timestamps, key, now)
                               /\ lru_cache' = Without(lru_cache, key)
              /\ miss =>
                     \A key \in CacheKeys(lru_cache) :
                         ~Expired(lru_ttl, lru_timestamps, key, now) =>
                             \A t \in Threads : ~LRUGet(t, key)
         ]_vars

\* a hit and a miss have been counted and an entry is stored, with no call
\* under way
C39_Witness ==
    /\ lru_lock = NoThread
    /\ lru_hits >= 1
    /\ lru_misses >= 1
    /\ Len(lru_cache) >= 1

=============================================================================
